---- MODULE Spec2Model ----
(***************************************************************************)
(* Model of the paid POST /mint endpoint of regent-x402-server.            *)
(*                                                                         *)
(* Two revisions of the handler exist in the repository: src/server.ts     *)
(* (marks the payment processed right after the mint) and a later revision *)
(* (marks it only after a successful settlement).  The variable `revision` *)
(* selects the deployed one; it never changes during a behaviour.          *)
(*                                                                         *)
(* The policy (gate switch, per-address limit) is whatever getConfig()     *)
(* returns; it is chosen at start and the policy file is not edited while  *)
(* requests run.  The handler reads it once, in the same synchronous       *)
(* segment as the gates that use it.                                       *)
(*                                                                         *)
(* Each request handler is an async function: it runs atomically between   *)
(* its awaits (verifyPayment, mintToAddress, settlePayment), and handlers  *)
(* of different requests interleave at those awaits.  A write of the store  *)
(* file (writeStore) can throw; the file is writable or not for the whole  *)
(* of one synchronous segment.                                             *)
(*                                                                         *)
(* LiveSpec adds the settlement that never answers and the fairness of the *)
(* event loop.  OnChainSpec, FacilitatorSpec and VerifySpec study one call *)
(* of settleOnChain, of the facilitator settlement and of                  *)
(* verifyPaymentLocally over all its inputs.                               *)
(* VerifyPaymentSpec does the same for the verifyPayment wrapper.          *)
(* ConfigSpec and WhitelistSpec follow the cached policy and allow-list    *)
(* loaders while time passes and the files change; FingerprintSpec         *)
(* compares the fingerprints of two payloads; StoreSpec runs the ledger    *)
(* operations of store.ts one after another with reads that can fail.      *)
(* GateOrderSpec starts the handler from stores where several gates fail   *)
(* at once; PresentationSpec submits one authorization under two           *)
(* presentations; CacheSpec runs the policy and allow-list caches side by  *)
(* side while both files are edited; ModeSpec follows one start of the     *)
(* process, from the environment to the strategy its requests go through.  *)
(***************************************************************************)
EXTENDS Integers, Sequences, FiniteSets, TLC

\* ---------------------------------------------------------------- bounds
MaxRequests == 2

Requests == 1..MaxRequests

\* ---------------------------------------------------------------- inputs
\* Payloads a client can submit; each one is a distinct signed authorization.
Payloads == {"pl1", "pl2", "pl3"}
NoPayload == "none"

\* The signer recovered from each payload, as the verifier returns it
\* (checksum-cased address).
SignerOf(pl) == IF pl = "pl3" THEN "0xBob" ELSE "0xAlice"

\* The identity the caller wrote into the unsigned parts of the request (a
\* from / payer field of the body); the handler never reads it.  pl2 is signed
\* by Alice and names Bob, pl3 is signed by Bob and names Alice.
AssertedBy(pl) ==
    CASE pl = "pl1" -> "0xAlice"
      [] pl = "pl2" -> "0xBob"
      [] pl = "pl3" -> "0xAlice"

\* String.prototype.toLowerCase on the addresses of the model.
toLowerCase(s) ==
    CASE s = "0xAlice" -> "0xalice"
      [] s = "0xBob" -> "0xbob"
      [] s = "0xMerchant" -> "0xmerchant"
      [] s = "0xOther" -> "0xother"
      [] s = "0xBOB" -> "0xbob"
      [] s = "LOCAL" -> "local"
      [] s = "Direct" -> "direct"
      [] OTHER -> s

Addresses == {"0xalice", "0xbob"}

\* Contents of WLaddress.txt as loaded by getWhitelist(): lowercased entries.
WhitelistFile == {"0xalice"}

\* Values of perAddressLimit; the empty set stands for null (unlimited).
Limits == {{}, {1}}

\* Outcomes of the awaited collaborators.
VerifyOutcomes ==
    { [isValid |-> TRUE, hasPayer |-> TRUE, invalidReason |-> "", throws |-> FALSE],
      [isValid |-> TRUE, hasPayer |-> FALSE, invalidReason |-> "", throws |-> FALSE],
      [isValid |-> FALSE, hasPayer |-> FALSE, invalidReason |-> "expired", throws |-> FALSE],
      [isValid |-> FALSE, hasPayer |-> TRUE, invalidReason |-> "", throws |-> FALSE],
      [isValid |-> FALSE, hasPayer |-> FALSE, invalidReason |-> "", throws |-> TRUE] }

MintOutcomes ==
    { [success |-> TRUE, transactionHash |-> TRUE, throws |-> FALSE],
      [success |-> FALSE, transactionHash |-> TRUE, throws |-> FALSE],
      [success |-> FALSE, transactionHash |-> FALSE, throws |-> FALSE],
      [success |-> FALSE, transactionHash |-> FALSE, throws |-> TRUE] }

SettleOutcomes ==
    { [success |-> TRUE, throws |-> FALSE],
      [success |-> FALSE, throws |-> FALSE],
      [success |-> FALSE, throws |-> TRUE] }

\* ---------------------------------------------------------------- state
VARIABLES
    revision,          \* which revision of the handler is deployed
    whitelistEnabled,  \* getConfig().whitelistEnabled (policy file left untouched)
    perAddressLimit,   \* getConfig().perAddressLimit ({} = null)
    store,             \* mint-store.json: [mints, processedPayments]
    pc,                \* per request: position of its handler
    reqPayload,        \* per request: the submitted payment payload
    reqStatus,         \* per request: the submitted x402.payment.status
    payer,             \* per request: lowercased verified payer ("" if none)
    mintTo,            \* per request: the argument of mintToAddress ("" if not called)
    verifyReason,      \* per request: verifyResult.invalidReason as returned
    result,            \* per request: the response sent
    trace,             \* per request: calls, their outcomes and ledger writes, in code order
    doneBefore,        \* per request: the requests with the same payload that
                       \* were already answered when it arrived
    fnArg,             \* the arguments of the executor function under study
    fnRet,             \* what that function returned
    config,            \* config.ts: cached, lastLoadedMs, lastMtimeMs
    whitelistCache     \* whitelist.ts: cachedWhitelist, lastLoadedMs

vars == <<revision, whitelistEnabled, perAddressLimit, store,
          pc, reqPayload, reqStatus, payer, mintTo, verifyReason, result, trace,
          doneBefore, fnArg, fnRet, config,
                   whitelistCache>>

\* mintTxHash and settlementTx are the transaction references a response
\* carries (0 when the body has none).
NoResult == [status |-> 0, kind |-> "", reason |-> "",
             mintTxHash |-> 0, settlementTx |-> 0]

Response(status, kind, reason) ==
    [status |-> status, kind |-> kind, reason |-> reason,
     mintTxHash |-> 0, settlementTx |-> 0]

\* Bodies that carry mintTxHash: mint.transactionHash and settlement.
WithOutputs(resp, mintTx, settleTx) ==
    [resp EXCEPT !.mintTxHash = mintTx, !.settlementTx = settleTx]

\* The hash of the transaction sent on behalf of request r (one per request
\* and per collaborator, all distinct).
TxOf(r) == r

\* No executor function is under study in the behaviours of the endpoint.
NoCall == [fn |-> "none"]

\* let cached = null
NotCached ==
    [loaded |-> FALSE, whitelistEnabled |-> "undefined",
     perAddressLimit |-> "undefined"]

\* The module state of whitelist.ts when the process starts: nothing loaded.
\* source is the text the loaded entries were parsed from, readFailed whether
\* the last load ended in the catch.
WhitelistFresh ==
    [loaded |-> FALSE, entries |-> {}, source |-> <<>>, readFailed |-> FALSE,
     lastLoadedMs |-> 0]

\* The module state of config.ts when the process starts; source is the file
\* as it was at the last load.
ConfigFresh ==
    [cached |-> NotCached, lastLoadedMs |-> 0, lastMtimeMs |-> 0,
     source |-> [state |-> "unread"]]

\* ---------------------------------------------------------------- store.ts
paymentIdFromPayload(pl) ==
    CASE pl = "pl1" -> "id1"
      [] pl = "pl2" -> "id2"
      [] pl = "pl3" -> "id3"

PaymentIds == {paymentIdFromPayload(pl) : pl \in Payloads}

\* Faulty variant: the lookup never finds a fingerprint.
isPaymentProcessed_Never(st, paymentId) == FALSE

isPaymentProcessed(st, paymentId) == paymentId \in st.processedPayments

markPaymentProcessed(st, paymentId) ==
    [st EXCEPT !.processedPayments = @ \cup {paymentId}]

getMintCount(st, address) == st.mints[toLowerCase(address)]

\* Faulty variant: the new count is computed but never written back.
incMintCount_NoWrite(st, address, by) == st

incMintCount(st, address, by) ==
    [st EXCEPT !.mints[toLowerCase(address)] = @ + by]

\* ---------------------------------------------------------------- whitelist.ts
isWhitelisted(address) == toLowerCase(address) \in WhitelistFile

\* ---------------------------------------------------------------- gates of /mint
\* Faulty variant: the allow-list result is ignored.
GateDenies_Ignored(enabled, p) == FALSE

\* if (whitelistEnabled && !isWhitelisted(payer))
GateDenies(enabled, p) == enabled /\ ~isWhitelisted(p)

\* Faulty variant: off by one, `used > perAddressLimit`.
QuotaExceeded_OffByOne(limit, used) == \E L \in limit : used > L

\* if (perAddressLimit != null && used >= perAddressLimit)
QuotaExceeded(limit, used) == \E L \in limit : used >= L

\* Faulty variant: only a missing transaction hash counts as a failure.
MintFailed_HashOnly(mint) == ~mint.transactionHash

\* if (!mint.success || !mint.transactionHash)
MintFailed(mint) == ~mint.success \/ ~mint.transactionHash

\* Faulty variant: rejects only when the verifier gave a reason.
VerifyRejects_ReasonOnly(v) == v.invalidReason # ""

\* if (!verifyResult.isValid)
VerifyRejects(v) == ~v.isValid

\* const reason = verifyResult.invalidReason || 'Invalid payment'
SurfacedReason(v) ==
    IF v.invalidReason = "" THEN "Invalid payment" ELSE v.invalidReason

\* Faulty variant: only the payload is looked at, not the status flag.
PaymentMissing_PayloadOnly(pl, status) == pl = NoPayload

\* if (!paymentPayload || paymentStatus !== 'payment-submitted')
PaymentMissing(pl, status) == pl = NoPayload \/ status # "payment-submitted"

\* Faulty variant: the identity field the caller wrote is taken as the payer.
VerifiedPayer_Asserted(v, pl) ==
    IF v.hasPayer THEN toLowerCase(AssertedBy(pl)) ELSE ""

\* const payer = (verifyResult.payer || '').toLowerCase()
\* verifyResult.payer is the signer the verifier recovered.
VerifiedPayer(v, pl) ==
    IF v.hasPayer THEN toLowerCase(SignerOf(pl)) ELSE ""

\* settlement.transaction as embedded in the response body (0 if none).
SettlementTx(r, s) == IF s.success THEN TxOf(r) ELSE 0

\* What the awaited collaborator actually did, as recorded in the trace.
VerifyEvent(v) ==
    IF v.throws THEN "verifyThrew"
    ELSE IF v.isValid THEN "verifyValid" ELSE "verifyInvalid"

MintEvent(mint) ==
    IF mint.throws THEN "mintThrew"
    ELSE IF mint.success /\ mint.transactionHash THEN "mintOk" ELSE "mintFail"

SettleEvent(s) ==
    IF s.throws THEN "settleThrew"
    ELSE IF s.success THEN "settleOk" ELSE "settleFail"

Finish(r, resp, events) ==
    /\ pc' = [pc EXCEPT ![r] = "done"]
    /\ result' = [result EXCEPT ![r] = resp]
    /\ trace' = [trace EXCEPT ![r] = @ \o events]

Await(r, where, events) ==
    /\ pc' = [pc EXCEPT ![r] = where]
    /\ trace' = [trace EXCEPT ![r] = @ \o events]
    /\ UNCHANGED result

\* ---------------------------------------------------------------- Init
Init ==
    /\ revision \in {"markBeforeSettle", "markAfterSettle"}
    /\ whitelistEnabled \in BOOLEAN
    /\ perAddressLimit \in Limits
    /\ store = [mints |-> [a \in Addresses |-> 0], processedPayments |-> {}]
    /\ pc = [r \in Requests |-> "idle"]
    /\ reqPayload = [r \in Requests |-> NoPayload]
    /\ reqStatus = [r \in Requests |-> ""]
    /\ payer = [r \in Requests |-> ""]
    /\ mintTo = [r \in Requests |-> ""]
    /\ verifyReason = [r \in Requests |-> ""]
    /\ result = [r \in Requests |-> NoResult]
    /\ trace = [r \in Requests |-> <<>>]
    /\ doneBefore = [r \in Requests |-> {}]
    /\ fnArg = NoCall
    /\ fnRet = NoCall
    /\ config = ConfigFresh
    /\ whitelistCache = WhitelistFresh

\* ---------------------------------------------------------------- actions
\* Start of the handler up to `await verifyPayment(paymentPayload)`.
Receive(r, pl, status) ==
    /\ pc[r] = "idle"
    /\ r > 1 => pc[r - 1] # "idle"
    /\ reqPayload' = [reqPayload EXCEPT ![r] = pl]
    /\ reqStatus' = [reqStatus EXCEPT ![r] = status]
    /\ doneBefore' = [doneBefore EXCEPT ![r] =
                         {q \in Requests : pc[q] = "done" /\ reqPayload[q] = pl}]
    /\ IF PaymentMissing(pl, status)
         THEN Finish(r, Response(402, "payment-required", ""), <<>>)
         ELSE Await(r, "awaitVerify", <<"verify">>)
    /\ UNCHANGED <<revision, whitelistEnabled, perAddressLimit,
                   store, payer, mintTo, verifyReason, fnArg, fnRet, config,
                   whitelistCache>>

\* Continuation after verifyPayment up to `await mintToAddress(payer)`.
VerifyReturn(r, v) ==
    /\ pc[r] = "awaitVerify"
    /\ verifyReason' = [verifyReason EXCEPT ![r] = v.invalidReason]
    /\ LET p == VerifiedPayer(v, reqPayload[r])
           paymentId == paymentIdFromPayload(reqPayload[r])
           ev == <<VerifyEvent(v)>>
       IN  IF v.throws
             THEN /\ Finish(r, Response(500, "internal-error", ""), ev)
                  /\ UNCHANGED <<payer, mintTo>>
           ELSE IF VerifyRejects(v)
             THEN /\ Finish(r, Response(402, "payment-rejected", SurfacedReason(v)), ev)
                  /\ UNCHANGED <<payer, mintTo>>
           ELSE IF p = ""
             THEN /\ Finish(r, Response(500, "payer-unavailable", ""), ev)
                  /\ UNCHANGED <<payer, mintTo>>
           ELSE /\ payer' = [payer EXCEPT ![r] = p]
                /\ IF GateDenies(whitelistEnabled, p)
                     THEN /\ Finish(r, Response(403, "address-not-whitelisted", ""), ev)
                          /\ UNCHANGED mintTo
                   ELSE IF isPaymentProcessed(store, paymentId)
                     THEN /\ Finish(r, Response(200, "already-processed", ""), ev)
                          /\ UNCHANGED mintTo
                   ELSE IF QuotaExceeded(perAddressLimit, getMintCount(store, p))
                     THEN /\ Finish(r, Response(403, "mint-limit-reached", ""), ev)
                          /\ UNCHANGED mintTo
                   ELSE /\ mintTo' = [mintTo EXCEPT ![r] = p]
                        /\ Await(r, "awaitMint", ev \o <<"mint">>)
    /\ UNCHANGED <<revision, whitelistEnabled, perAddressLimit,
                   store, reqPayload, reqStatus, doneBefore, fnArg, fnRet, config,
                   whitelistCache>>

\* Continuation after mintToAddress up to `await settlePayment(paymentPayload)`.
MintReturn(r, mint, writable) ==
    /\ pc[r] = "awaitMint"
    /\ LET paymentId == paymentIdFromPayload(reqPayload[r])
           counted == incMintCount(store, payer[r], 1)
           ev == <<MintEvent(mint)>>
       IN  IF mint.throws
             THEN /\ Finish(r, Response(500, "internal-error", ""), ev)
                  /\ UNCHANGED store
           ELSE IF MintFailed(mint)
             THEN /\ Finish(r, Response(500, "mint-failed", ""), ev)
                  /\ UNCHANGED store
           ELSE IF ~writable
             THEN /\ Finish(r, Response(500, "internal-error", ""),
                            ev \o <<"writeThrew">>)
                  /\ UNCHANGED store
           ELSE IF revision = "markBeforeSettle"
             THEN /\ store' = markPaymentProcessed(counted, paymentId)
                  /\ Await(r, "awaitSettle", ev \o <<"inc", "mark", "settle">>)
           ELSE /\ store' = counted
                /\ Await(r, "awaitSettle", ev \o <<"inc", "settle">>)
    /\ UNCHANGED <<revision, whitelistEnabled, perAddressLimit, reqPayload,
                   reqStatus, payer, mintTo, verifyReason, doneBefore,
                   fnArg, fnRet, config,
                   whitelistCache>>

\* Continuation after settlePayment to the end of the handler.
SettleReturn(r, s, writable) ==
    /\ pc[r] = "awaitSettle"
    /\ LET paymentId == paymentIdFromPayload(reqPayload[r])
           ev == <<SettleEvent(s)>>
       IN  IF s.throws
             THEN /\ Finish(r, Response(500, "internal-error", ""), ev)
                  /\ UNCHANGED store
           ELSE IF revision = "markBeforeSettle"
             THEN /\ Finish(r, WithOutputs(Response(200, "success", ""),
                                           TxOf(r), SettlementTx(r, s)), ev)
                  /\ UNCHANGED store
           ELSE IF ~s.success
             THEN /\ Finish(r, WithOutputs(Response(500, "settlement-failed", ""),
                                           TxOf(r), SettlementTx(r, s)), ev)
                  /\ UNCHANGED store
           ELSE IF ~writable
             THEN /\ Finish(r, Response(500, "internal-error", ""),
                            ev \o <<"writeThrew">>)
                  /\ UNCHANGED store
           ELSE /\ store' = markPaymentProcessed(store, paymentId)
                /\ Finish(r, WithOutputs(Response(200, "success", ""),
                                         TxOf(r), SettlementTx(r, s)),
                          ev \o <<"mark">>)
    /\ UNCHANGED <<revision, whitelistEnabled, perAddressLimit, reqPayload,
                   reqStatus, payer, mintTo, verifyReason, doneBefore,
                   fnArg, fnRet, config,
                   whitelistCache>>

Next ==
    \/ \E r \in Requests, pl \in Payloads \cup {NoPayload},
          st \in {"payment-submitted", "payment-required"} : Receive(r, pl, st)
    \/ \E r \in Requests, v \in VerifyOutcomes : VerifyReturn(r, v)
    \/ \E r \in Requests, m \in MintOutcomes, w \in BOOLEAN : MintReturn(r, m, w)
    \/ \E r \in Requests, s \in SettleOutcomes, w \in BOOLEAN : SettleReturn(r, s, w)

Spec == Init /\ [][Next]_vars

\* ---------------------------------------------------------------- liveness
\* The facilitator (fetch in CustomFacilitatorClient.settle / callFacilitator)
\* or the chain (tx.wait() in settleOnChain) goes silent: the promise awaited
\* by the handler of r never resolves.  No timer is armed around either call,
\* so nothing is enabled for r afterwards.
SettleNeverResponds(r) ==
    /\ pc[r] = "awaitSettle"
    /\ pc' = [pc EXCEPT ![r] = "settleHung"]
    /\ UNCHANGED <<revision, whitelistEnabled, perAddressLimit, store,
                   reqPayload, reqStatus, payer, mintTo, verifyReason, result,
                   trace, doneBefore, fnArg, fnRet, config,
                   whitelistCache>>

LiveNext ==
    \/ \E r \in Requests, pl \in Payloads \cup {NoPayload},
          st \in {"payment-submitted", "payment-required"} : Receive(r, pl, st)
    \/ \E r \in Requests, v \in VerifyOutcomes : VerifyReturn(r, v)
    \/ \E r \in Requests, m \in MintOutcomes, w \in BOOLEAN : MintReturn(r, m, w)
    \/ \E r \in Requests, s \in SettleOutcomes, w \in BOOLEAN : SettleReturn(r, s, w)
    \/ \E r \in Requests : SettleNeverResponds(r)

\* Every continuation whose awaited promise resolves is run by the event
\* loop; whether a settlement ever answers is up to the facilitator or chain.
LiveSpec ==
    /\ Init /\ [][LiveNext]_vars
    /\ \A r \in Requests :
          /\ WF_vars(\E v \in VerifyOutcomes : VerifyReturn(r, v))
          /\ WF_vars(\E m \in MintOutcomes, w \in BOOLEAN : MintReturn(r, m, w))
          /\ WF_vars(\E s \in SettleOutcomes, w \in BOOLEAN : SettleReturn(r, s, w))

\* ---------------------------------------------------------------- executor functions
\* The functions of MerchantExecutor and CustomFacilitatorClient are studied
\* one call at a time: fnArg holds the arguments together with what the
\* outside world (wallet, chain, facilitator, clock) does during the call,
\* fnRet what the call returned.  The endpoint stays idle meanwhile.
EndpointIdle ==
    /\ revision = "markBeforeSettle"
    /\ whitelistEnabled = FALSE
    /\ perAddressLimit = {}
    /\ store = [mints |-> [a \in Addresses |-> 0], processedPayments |-> {}]
    /\ pc = [r \in Requests |-> "idle"]
    /\ reqPayload = [r \in Requests |-> NoPayload]
    /\ reqStatus = [r \in Requests |-> ""]
    /\ payer = [r \in Requests |-> ""]
    /\ mintTo = [r \in Requests |-> ""]
    /\ verifyReason = [r \in Requests |-> ""]
    /\ result = [r \in Requests |-> NoResult]
    /\ trace = [r \in Requests |-> <<>>]
    /\ doneBefore = [r \in Requests |-> {}]
    /\ config = ConfigFresh
    /\ whitelistCache = WhitelistFresh

endpointVars == <<revision, whitelistEnabled, perAddressLimit, store, pc,
                  reqPayload, reqStatus, payer, mintTo, verifyReason, result,
                  trace, doneBefore>>

\* Messages of the errors the libraries throw.
ErrorMessages == {"invalid signature", "nonce already used"}

\* ---------------------------------------------------------------- settleOnChain
\* wallet: settlementWallet and settlementProvider are set; decodes:
\* ethers.Signature.from accepts the signature; submit: what the call of
\* transferWithAuthorization does; wait: what tx.wait() does; message: the
\* message of the error thrown by the step that throws.
OnChainCalls ==
    [fn : {"settleOnChain"}, wallet : BOOLEAN, authorization : BOOLEAN,
     signature : BOOLEAN, decodes : BOOLEAN, submit : {"sent", "throws"},
     wait : {"status1", "status0", "nullReceipt", "throws"},
     message : ErrorMessages]

SettleFailed(reason) ==
    [fn |-> "settleOnChain", success |-> FALSE, transaction |-> FALSE,
     errorReason |-> reason, throws |-> FALSE]

\* An exception leaving a block or the function.
SettleThrows(message) ==
    [fn |-> "settleOnChain", success |-> FALSE, transaction |-> FALSE,
     errorReason |-> message, throws |-> TRUE]

\* Faulty variant: any mined receipt counts as a success.
ReceiptSucceeded_AnyReceipt(wait) == wait \in {"status1", "status0"}

\* const success = receipt?.status === 1
ReceiptSucceeded(wait) == wait = "status1"

\* The body of the try block of settleOnChain.
settleOnChainTry(a) ==
    IF ~a.decodes THEN SettleThrows(a.message)
    ELSE IF a.submit = "throws" THEN SettleThrows(a.message)
    ELSE IF a.wait = "throws" THEN SettleThrows(a.message)
    ELSE [fn |-> "settleOnChain",
          success |-> ReceiptSucceeded(a.wait),
          transaction |-> a.wait # "nullReceipt",
          errorReason |-> IF ReceiptSucceeded(a.wait) THEN ""
                          ELSE "Transaction reverted",
          throws |-> FALSE]

\* Faulty variant: the try block has no catch.
settleOnChain_NoCatch(a) ==
    IF ~a.wallet THEN SettleFailed("Direct settlement wallet not configured")
    ELSE IF ~a.authorization \/ ~a.signature
      THEN SettleFailed("Missing payment authorization data")
    ELSE settleOnChainTry(a)

settleOnChain(a) ==
    IF ~a.wallet THEN SettleFailed("Direct settlement wallet not configured")
    ELSE IF ~a.authorization \/ ~a.signature
      THEN SettleFailed("Missing payment authorization data")
    ELSE LET tried == settleOnChainTry(a)
         IN  IF tried.throws THEN SettleFailed(tried.errorReason) ELSE tried

OnChainInit == EndpointIdle /\ fnArg \in OnChainCalls /\ fnRet = NoCall

CallSettleOnChain ==
    /\ fnArg.fn = "settleOnChain" /\ fnRet = NoCall
    /\ fnRet' = settleOnChain(fnArg)
    /\ UNCHANGED <<endpointVars, config, whitelistCache, fnArg>>

OnChainNext == CallSettleOnChain

OnChainSpec == OnChainInit /\ [][OnChainNext]_vars

\* ---------------------------------------------------------------- facilitator settle
\* JavaScript values of the fields of a JSON body, written as text.
JsValues == {"true", "false", "undefined", "null", "0", "''", "'ok'"}

\* ToBoolean
Truthy(v) == v \in {"true", "'ok'"}

\* a || b
JsOr(a, b) == IF Truthy(a) THEN a ELSE b

\* client: which caller of the facilitator runs; fetch: the request got a
\* response or failed in transport; ok: response.ok; body: what
\* response.json() yields; success: the success field of an object body
\* ("undefined" when the field is missing).
FacilitatorCalls ==
    [fn : {"settle"}, client : {"CustomFacilitatorClient", "callFacilitator"},
     fetch : {"responds", "throws"}, ok : BOOLEAN,
     body : {"object", "null", "unparsable"}, success : JsValues]

RemoteResult(success, reason) ==
    [fn |-> "settle", success |-> success, errorReason |-> reason,
     throws |-> FALSE]

RemoteThrows(message) ==
    [fn |-> "settle", success |-> "undefined", errorReason |-> message,
     throws |-> TRUE]

\* Faulty variant: the status of the response is not looked at.
ResponseNotOk_Ignored(a) == FALSE

\* if (!response.ok)
ResponseNotOk(a) == ~a.ok

\* The body of the try block of CustomFacilitatorClient.settle.
customSettleTry(a) ==
    IF a.fetch = "throws" THEN RemoteThrows("fetch failed")
    ELSE IF ResponseNotOk(a) THEN RemoteResult("false", "HTTP status")
    ELSE IF a.body = "unparsable" THEN RemoteThrows("Unexpected token")
    ELSE IF a.body = "null" THEN RemoteThrows("Cannot read properties of null")
    ELSE RemoteResult(JsOr(a.success, "false"), "")

customSettle(a) ==
    LET tried == customSettleTry(a)
    IN  IF tried.throws
          THEN RemoteResult("false", "Network error: " \o tried.errorReason)
        ELSE tried

\* callFacilitator('settle', payload) followed by the reads of result.success
\* in the try block of settlePayment; the JSON body is returned as it came.
callFacilitatorTry(a) ==
    IF a.fetch = "throws" THEN RemoteThrows("fetch failed")
    ELSE IF ResponseNotOk(a) THEN RemoteThrows("Facilitator settle failed")
    ELSE IF a.body = "unparsable" THEN RemoteThrows("Unexpected token")
    ELSE IF a.body = "null" THEN RemoteThrows("Cannot read properties of null")
    ELSE RemoteResult(a.success, "")

facilitatorSettlePayment(a) ==
    LET tried == callFacilitatorTry(a)
    IN  IF tried.throws THEN RemoteResult("false", tried.errorReason) ELSE tried

RemoteSettle(a) ==
    IF a.client = "CustomFacilitatorClient" THEN customSettle(a)
    ELSE facilitatorSettlePayment(a)

FacilitatorInit == EndpointIdle /\ fnArg \in FacilitatorCalls /\ fnRet = NoCall

CallRemoteSettle ==
    /\ fnArg.fn = "settle" /\ fnRet = NoCall
    /\ fnRet' = RemoteSettle(fnArg)
    /\ UNCHANGED <<endpointVars, config, whitelistCache, fnArg>>

FacilitatorNext == CallRemoteSettle

FacilitatorSpec == FacilitatorInit /\ [][FacilitatorNext]_vars

\* ---------------------------------------------------------------- verifyPaymentLocally
\* The payment requirements the executor was built with.
RequiredNetwork == "base"
RequiredScheme == "exact"
PayTo == "0xMerchant"

\* requirements.maxAmountRequired of the deployments studied: a small price
\* and one above 2^53, where a double no longer tells neighbours apart.
MaxAmountsRequired == {"100", "9007199254740993"}

\* The texts BigInt() accepts (any other one makes it throw) and their values.
\* The two amounts above 2^53 are scaled down to the integers of the checker,
\* their order and their difference of one kept.
IsBigInt(s) ==
    s \in {"-1", "99", "100", "9007199254740992", "9007199254740993"}

BigIntOf(s) ==
    CASE s = "-1" -> -1
      [] s = "99" -> 99
      [] s = "100" -> 100
      [] s = "9007199254740992" -> 2000000000
      [] s = "9007199254740993" -> 2000000001

\* The same texts as doubles: 2^53 + 1 rounds to 2^53.
DoubleOf(s) ==
    CASE s = "-1" -> -1
      [] s = "99" -> 99
      [] s = "100" -> 100
      [] s = "9007199254740992" -> 2000000000
      [] s = "9007199254740993" -> 2000000000

\* The texts Number() turns into a number (any other one gives NaN) and
\* their values.
IsNumeric(s) == s \in {"-5", "0", "10", "15", "20"}

NumberOf(s) ==
    CASE s = "-5" -> -5
      [] s = "0" -> 0
      [] s = "10" -> 10
      [] s = "15" -> 15
      [] s = "20" -> 20

\* The values the uint256 fields of TRANSFER_AUTH_TYPES can encode; for any
\* other one (missing, negative, fractional, not a number) the typed-data
\* encoder of ethers.verifyTypedData throws.
IsUint256(s) ==
    s \in {"0", "10", "15", "20", "99", "100",
           "9007199254740992", "9007199254740993"}

\* x ?? 0, as text
OrZero(s) == IF s = "undefined" THEN "0" ELSE s

\* authorization / signature: the field is present in payload.payload;
\* scheme, network: fields of the payload; maxAmountRequired: field of the
\* requirements; to, value, validAfter, validBefore, from: fields of the
\* authorization ("undefined" when missing); now: Math.floor(Date.now() / 1000); recovered:
\* the address ethers.verifyTypedData recovers, or "throws".
VerifyCalls ==
    [fn : {"verifyPaymentLocally"}, authorization : BOOLEAN, signature : BOOLEAN,
     scheme : {"exact", "upto"},
     network : {"base", "base-sepolia"},
     to : {"0xMerchant", "0xmerchant", "0xOther", "undefined"},
     value : {"-1", "99", "100", "1.5", "9007199254740992"},
     maxAmountRequired : MaxAmountsRequired,
     validAfter : {"undefined", "-5", "10", "15", "soon"},
     validBefore : {"undefined", "10", "20", "later"},
     now : {10, 15},
     from : {"0xAlice", "0xalice", "0xBob", "undefined"},
     recovered : {"0xAlice", "0xBob", "throws"}]

VerifyInvalid(reason) ==
    [fn |-> "verifyPaymentLocally", isValid |-> FALSE, payer |-> "undefined",
     invalidReason |-> reason, throws |-> FALSE]

VerifyValid(signer) ==
    [fn |-> "verifyPaymentLocally", isValid |-> TRUE, payer |-> signer,
     invalidReason |-> "", throws |-> FALSE]

\* Faulty variant: the recovered signer is not compared with `from`.
SignerMatches_Always(recovered, from) == TRUE

\* recovered.toLowerCase() === authorization.from.toLowerCase()
SignerMatches(recovered, from) == toLowerCase(recovered) = toLowerCase(from)

\* Faulty variant: amounts compared as doubles.
AmountLess_AsNumber(value, required) == DoubleOf(value) < DoubleOf(required)

\* authorizedAmount < requiredAmount, both BigInt
AmountLess(value, required) == BigIntOf(value) < BigIntOf(required)

\* Faulty variant: an authorization is still good at validBefore itself.
Expired_AtEndStillGood(validBeforeNum, now) == validBeforeNum < now

\* if (validBeforeNum <= now)
Expired(validBeforeNum, now) == validBeforeNum <= now

\* The message handed to verifyTypedData can be encoded.
EncodesTypedData(a) ==
    IsUint256(a.value) /\ IsUint256(a.validAfter) /\ IsUint256(a.validBefore)

\* The last try block of verifyPaymentLocally, its catch included:
\* verifyTypedData (encoding or recovery) and the toLowerCase of a missing
\* `from` throw into it.
verifySignature(a) ==
    IF ~EncodesTypedData(a) \/ a.recovered = "throws" \/ a.from = "undefined"
      THEN VerifyInvalid("Signature verification failed")
    ELSE IF ~SignerMatches(a.recovered, a.from)
      THEN VerifyInvalid("Signature does not match payer address")
    ELSE VerifyValid(a.recovered)

verifyPaymentLocally(a) ==
    IF ~a.authorization \/ ~a.signature
      THEN VerifyInvalid("Missing payment authorization data")
    ELSE IF a.network # RequiredNetwork
      THEN VerifyInvalid("Network mismatch")
    ELSE IF a.to = "undefined" \/ toLowerCase(a.to) # toLowerCase(PayTo)
      THEN VerifyInvalid("Authorization recipient does not match payment requirement")
    ELSE IF ~IsBigInt(a.maxAmountRequired) \/ ~IsBigInt(a.value)
      THEN VerifyInvalid("Invalid payment amount provided")
    ELSE IF AmountLess(a.value, a.maxAmountRequired)
      THEN VerifyInvalid("Authorized amount is less than required amount")
    ELSE IF ~IsNumeric(OrZero(a.validAfter)) \/ ~IsNumeric(OrZero(a.validBefore))
      THEN VerifyInvalid("Invalid authorization timing fields")
    ELSE IF NumberOf(OrZero(a.validAfter)) > a.now
      THEN VerifyInvalid("Payment authorization is not yet valid")
    ELSE IF Expired(NumberOf(OrZero(a.validBefore)), a.now)
      THEN VerifyInvalid("Payment authorization has expired")
    ELSE verifySignature(a)

VerifyInit == EndpointIdle /\ fnArg \in VerifyCalls /\ fnRet = NoCall

CallVerifyPaymentLocally ==
    /\ fnArg.fn = "verifyPaymentLocally" /\ fnRet = NoCall
    /\ fnRet' = verifyPaymentLocally(fnArg)
    /\ UNCHANGED <<endpointVars, config, whitelistCache, fnArg>>

VerifyNext == CallVerifyPaymentLocally

VerifySpec == VerifyInit /\ [][VerifyNext]_vars

\* ---------------------------------------------------------------- verifyPayment
\* The payloads handed to MerchantExecutor.verifyPayment in local mode:
\* inner is false when the payment payload has no inner `payload` object (and
\* then neither an authorization nor a signature); the other fields are those
\* of VerifyCalls, the well-formed ones held at values that verify.
VerifyPaymentCalls ==
    {a \in [fn : {"verifyPayment"}, inner : BOOLEAN,
            authorization : BOOLEAN, signature : BOOLEAN,
            scheme : {"exact"}, network : {"base"}, to : {"0xMerchant"},
            value : {"-1", "99", "100", "1.5", "9007199254740992"},
            maxAmountRequired : {"100"},
            validAfter : {"undefined", "-5", "10", "15", "soon"},
            validBefore : {"20"}, now : {15},
            from : {"0xAlice", "0xalice", "0xBob", "undefined"},
            recovered : {"0xAlice"}] :
        ~a.inner => (~a.authorization /\ ~a.signature)}

\* An exception leaving verifyPayment.
VerifyThrows(message) ==
    [fn |-> "verifyPaymentLocally", isValid |-> FALSE, payer |-> "undefined",
     invalidReason |-> message, throws |-> TRUE]

\* The log line `(payload.payload as any).authorization?.from` stands before
\* the try block; the catch of the try block rethrows.
verifyPayment(a) ==
    IF ~a.inner THEN VerifyThrows("Cannot read properties of undefined")
    ELSE verifyPaymentLocally(a)

VerifyPaymentInit ==
    EndpointIdle /\ fnArg \in VerifyPaymentCalls /\ fnRet = NoCall

CallVerifyPayment ==
    /\ fnArg.fn = "verifyPayment" /\ fnRet = NoCall
    /\ fnRet' = verifyPayment(fnArg)
    /\ UNCHANGED <<endpointVars, config, whitelistCache, fnArg>>

VerifyPaymentNext == CallVerifyPayment

VerifyPaymentSpec == VerifyPaymentInit /\ [][VerifyPaymentNext]_vars

\* ---------------------------------------------------------------- config.ts
\* Clock ticks in a behaviour, and the milliseconds between two of them.
MaxTicks == 4
TickMs == 1500

\* Number(process.env.SERVER_CONFIG_TTL_MS || 3000), the variable unset.
TtlMs == 3000

\* Values of WHITELIST_ENABLED and MINT_PER_ADDRESS_LIMIT ("undefined": unset).
EnvWhitelistValues == {"undefined", "false", "0", " FALSE ", "true", "no"}
EnvLimitValues == {"undefined", "", "null", "-1", "5", "abc", "-2"}

\* server-config.json: absent, not JSON, or an object whose two fields are
\* missing ("undefined"), null or set, as the server finds it at start.
ConfigFiles ==
    {f \in [state : {"absent", "unparseable", "json"}, mtimeMs : {1},
            whitelistEnabled : {"undefined", "true", "false"},
            perAddressLimit : {"undefined", "null", "5"}] :
        f.state # "json" =>
            (f.whitelistEnabled = "undefined" /\ f.perAddressLimit = "undefined")}

\* What surrounds a server during its life; now is Date.now().
ConfigWorlds ==
    [fn : {"getConfig"}, envWhitelist : EnvWhitelistValues,
     envLimit : EnvLimitValues, file : ConfigFiles, now : {0}]

\* env || fallback
OrDefault(s, fallback) == IF s \in {"undefined", ""} THEN fallback ELSE s

\* s.trim().toLowerCase() on the texts above
TrimLower(s) == IF s = " FALSE " THEN "false" ELSE s

\* a ?? b
Coalesce(a, b) == IF a \in {"undefined", "null"} THEN b ELSE a

baseDefaults(w) ==
    LET envWhitelistEnabled == TrimLower(OrDefault(w.envWhitelist, "true"))
        envLimit == OrDefault(w.envLimit, "3")
    IN  [whitelistEnabled |->
            IF envWhitelistEnabled # "false" /\ envWhitelistEnabled # "0"
              THEN "true" ELSE "false",
         perAddressLimit |->
            IF envLimit \in {"null", "", "-1"} THEN "null"
            ELSE IF envLimit \in {"3", "5"} THEN envLimit
            ELSE "3"]

\* Faulty variant: once something is cached the file is taken as unchanged.
readJson_SkipsWhenCached(w, c) ==
    IF w.file.state = "absent" THEN [json |-> FALSE, lastMtimeMs |-> c.lastMtimeMs]
    ELSE IF c.cached.loaded
      THEN [json |-> FALSE, lastMtimeMs |-> c.lastMtimeMs]
    ELSE IF w.file.state = "unparseable"
      THEN [json |-> FALSE, lastMtimeMs |-> w.file.mtimeMs]
    ELSE [json |-> TRUE, lastMtimeMs |-> w.file.mtimeMs]

\* readJson: whether it returns the parsed file (else null), and lastMtimeMs
\* after it.  statSync throws for an absent file; an unchanged mtime with a
\* cache in place returns null; lastMtimeMs is set before JSON.parse runs.
readJson(w, c) ==
    IF w.file.state = "absent" THEN [json |-> FALSE, lastMtimeMs |-> c.lastMtimeMs]
    ELSE IF w.file.mtimeMs = c.lastMtimeMs /\ c.cached.loaded
      THEN [json |-> FALSE, lastMtimeMs |-> c.lastMtimeMs]
    ELSE IF w.file.state = "unparseable"
      THEN [json |-> FALSE, lastMtimeMs |-> w.file.mtimeMs]
    ELSE [json |-> TRUE, lastMtimeMs |-> w.file.mtimeMs]

\* getConfig: the module state after the call; its cached field is what the
\* call returns.
getConfig(w, c) ==
    IF c.cached.loaded /\ w.now - c.lastLoadedMs < TtlMs THEN c
    ELSE LET defaults == baseDefaults(w)
             read == readJson(w, c)
             fromFile == IF read.json THEN w.file
                         ELSE [whitelistEnabled |-> "undefined",
                               perAddressLimit |-> "undefined"]
         IN  [cached |->
                 [loaded |-> TRUE,
                  whitelistEnabled |->
                      Coalesce(fromFile.whitelistEnabled, defaults.whitelistEnabled),
                  perAddressLimit |->
                      Coalesce(fromFile.perAddressLimit, defaults.perAddressLimit)],
              lastLoadedMs |-> w.now,
              lastMtimeMs |-> read.lastMtimeMs,
              source |-> w.file]

ConfigInit == EndpointIdle /\ fnArg \in ConfigWorlds /\ fnRet = NoCall

\* A caller (the /mint handler) asks for the policy.
CallGetConfig ==
    /\ fnArg.fn = "getConfig"
    /\ config' = getConfig(fnArg, config)
    /\ fnRet' = [fn |-> "getConfig",
                 whitelistEnabled |-> config'.cached.whitelistEnabled,
                 perAddressLimit |-> config'.cached.perAddressLimit,
                 throws |-> FALSE]
    /\ UNCHANGED <<endpointVars, whitelistCache, fnArg>>

\* Time passes.
Tick ==
    /\ fnArg.fn = "getConfig"
    /\ fnArg.now < MaxTicks * TickMs
    /\ fnArg' = [fnArg EXCEPT !.now = @ + TickMs]
    /\ UNCHANGED <<endpointVars, config, whitelistCache, fnRet>>

ConfigNext == CallGetConfig \/ Tick

ConfigSpec == ConfigInit /\ [][ConfigNext]_vars

\* ---------------------------------------------------------------- whitelist.ts loader
\* parseWhitelistFile, getWhitelist, isWhitelisted on a file given as its
\* sequence of raw lines (contents.split(/\r?\n/)).

MaxLines == 2

\* WHITELIST_TTL_MS when the variable is not set, and the step of the clock.
WhitelistTtlMs == 60000

WhitelistTickMs == 30000

RawLines ==
    {"0xAlice", " 0xalice ", "0xBOB", "", "   ", "#0xalice", " # 0xbob",
     "0xalice # vip"}

WhitelistTexts == UNION {[1..n -> RawLines] : n \in 0..MaxLines}

\* What readFileSync finds: a text, or an error.
WhitelistSources ==
    [readable : {TRUE}, lines : WhitelistTexts]
        \cup {[readable |-> FALSE, lines |-> <<>>]}

\* The texts an operator replaces the file with while the server runs.
WhitelistEdits ==
    {[readable |-> TRUE, lines |-> <<l>>] : l \in {"0xBOB", "#0xalice"}}
        \cup {[readable |-> FALSE, lines |-> <<>>]}

QueriedAddresses ==
    {"0xAlice", "0xalice", "0xBob", "0xOther", "#0xalice", " 0xalice ", ""}

WhitelistWorlds ==
    [fn : {"isWhitelisted"}, file : WhitelistSources,
     address : QueriedAddresses, now : {0}]

\* String.prototype.trim and startsWith('#') on the lines above.
trim(s) ==
    CASE s = " 0xalice " -> "0xalice"
      [] s = "   " -> ""
      [] s = " # 0xbob" -> "# 0xbob"
      [] OTHER -> s

startsWithHash(s) == s \in {"#0xalice", "# 0xbob"}

\* Faulty variant: comment lines are kept as entries.
parseWhitelistFile_KeepsComments(lines) ==
    {toLowerCase(trim(lines[i])) :
        i \in {j \in DOMAIN lines : trim(lines[j]) # ""}}

parseWhitelistFile(lines) ==
    {toLowerCase(trim(lines[i])) :
        i \in {j \in DOMAIN lines :
                  trim(lines[j]) # "" /\ ~startsWithHash(trim(lines[j]))}}

\* Faulty variant: a failed read leaves the entries loaded before in place.
getWhitelist_KeepsOnError(w, c) ==
    IF c.loaded /\ w.now - c.lastLoadedMs < WhitelistTtlMs
    THEN c
    ELSE [loaded |-> TRUE,
          entries |-> IF w.file.readable THEN parseWhitelistFile(w.file.lines)
                      ELSE c.entries,
          source |-> IF w.file.readable THEN w.file.lines ELSE c.source,
          readFailed |-> ~w.file.readable,
          lastLoadedMs |-> w.now]

\* getWhitelist: the module state after the call; entries is what it returns.
getWhitelist(w, c) ==
    IF c.loaded /\ w.now - c.lastLoadedMs < WhitelistTtlMs
    THEN c
    ELSE [loaded |-> TRUE,
          entries |-> IF w.file.readable THEN parseWhitelistFile(w.file.lines)
                      ELSE {},
          source |-> w.file.lines,
          readFailed |-> ~w.file.readable,
          lastLoadedMs |-> w.now]

WhitelistInit == EndpointIdle /\ fnArg \in WhitelistWorlds /\ fnRet = NoCall

CallIsWhitelisted ==
    /\ fnArg.fn = "isWhitelisted"
    /\ whitelistCache' = getWhitelist(fnArg, whitelistCache)
    /\ fnRet' = [fn |-> "isWhitelisted", address |-> fnArg.address,
                 result |-> toLowerCase(fnArg.address) \in whitelistCache'.entries,
                 throws |-> FALSE]
    /\ UNCHANGED <<endpointVars, config, fnArg>>

\* Time passes.
WhitelistTick ==
    /\ fnArg.fn = "isWhitelisted"
    /\ fnArg.now < MaxTicks * WhitelistTickMs
    /\ fnArg' = [fnArg EXCEPT !.now = @ + WhitelistTickMs]
    /\ UNCHANGED <<endpointVars, config, whitelistCache, fnRet>>

\* The operator replaces the file, or makes it unreadable.
RewriteWhitelist(f) ==
    /\ fnArg.fn = "isWhitelisted"
    /\ fnArg.file # f
    /\ fnArg' = [fnArg EXCEPT !.file = f]
    /\ UNCHANGED <<endpointVars, config, whitelistCache, fnRet>>

WhitelistNext ==
    \/ CallIsWhitelisted
    \/ WhitelistTick
    \/ \E f \in WhitelistEdits : RewriteWhitelist(f)

WhitelistSpec == WhitelistInit /\ [][WhitelistNext]_vars

\* ---------------------------------------------------------------- store.ts fingerprint
\* stableStringify and paymentIdFromPayload on parsed JSON bodies. A JSON
\* value is a record tagged with its type; an object keeps its fields in
\* insertion order, which is the order Object.keys reports.

Num(n) == [t |-> "number", n |-> n]

Str(s) == [t |-> "string", s |-> s]

Null == [t |-> "null"]

Arr(items) == [t |-> "array", items |-> items]

Obj(fields) == [t |-> "object", fields |-> fields]

\* The keys in use, in the order Array.prototype.sort puts them.
KeyOrder ==
    <<"a", "authorization", "b", "extra", "from", "network", "nonce",
      "payload", "signature", "to", "value">>

\* The keys of the payloads compared with their reorderings.
JsonKeys == {"a", "b"}

JsonPrims == {Num(1), Str("1"), Null}

\* Sequences of fields over the values V with pairwise distinct keys.
FieldLists(V) ==
    {<<>>}
        \cup {<<[k |-> k, v |-> v]>> : k \in JsonKeys, v \in V}
        \cup {<<[k |-> f[1], v |-> f[2]], [k |-> f[3], v |-> f[4]]>> :
                 f \in {g \in JsonKeys \X V \X JsonKeys \X V : g[1] # g[3]}}

JsonInner ==
    JsonPrims
        \cup {Obj(fs) : fs \in FieldLists(JsonPrims)}
        \cup {Arr(<<>>), Arr(<<Num(1)>>), Arr(<<Num(1), Str("1")>>),
              Arr(<<Str("1"), Num(1)>>)}

JsonPayloads == {Obj(fs) : fs \in FieldLists(JsonInner)}

Reverse(s) == [i \in DOMAIN s |-> s[Len(s) + 1 - i]]

\* The same fields inserted in the opposite order, at the top, below it,
\* or at every depth.
ReverseInner(v) ==
    IF v.t = "object" THEN Obj(Reverse(v.fields)) ELSE v

ReverseTop(p) == Obj(Reverse(p.fields))

ReverseBelow(p) ==
    Obj([i \in DOMAIN p.fields |->
            [k |-> p.fields[i].k, v |-> ReverseInner(p.fields[i].v)]])

ReverseDeep(p) == ReverseTop(ReverseBelow(p))

\* The elements of every array in the opposite order.
ReverseArrays(p) ==
    Obj([i \in DOMAIN p.fields |->
            [k |-> p.fields[i].k,
             v |-> IF p.fields[i].v.t = "array"
                   THEN Arr(Reverse(p.fields[i].v.items))
                   ELSE p.fields[i].v]])

\* One field given another value, or left out.
WithValue(p, i, w) == Obj([p.fields EXCEPT ![i] = [k |-> @.k, v |-> w]])

WithoutField(p, i) ==
    Obj(SelectSeq(p.fields, LAMBDA f : f.k # p.fields[i].k))

\* How the second payload of a comparison is made from the first.
VariantOps ==
    [op : {"same", "reverseTop", "reverseBelow", "reverseDeep",
           "reverseArrays"}, i : {1}, w : {Null}]
        \cup [op : {"withValue"}, i : 1..Cardinality(JsonKeys), w : JsonInner]
        \cup [op : {"withValueReversed"}, i : 1..Cardinality(JsonKeys), w : JsonPrims]
        \cup [op : {"withoutField"}, i : 1..Cardinality(JsonKeys), w : {Null}]

VariantOf(p, o) ==
    CASE o.op = "reverseTop" -> ReverseTop(p)
      [] o.op = "reverseBelow" -> ReverseBelow(p)
      [] o.op = "reverseDeep" -> ReverseDeep(p)
      [] o.op = "reverseArrays" -> ReverseArrays(p)
      [] o.op = "withValue" /\ o.i \in DOMAIN p.fields -> WithValue(p, o.i, o.w)
      [] o.op = "withValueReversed" /\ o.i \in DOMAIN p.fields ->
            WithValue(ReverseDeep(p), o.i, o.w)
      [] o.op = "withoutField" /\ o.i \in DOMAIN p.fields -> WithoutField(p, o.i)
      [] OTHER -> p

FingerprintCalls ==
    [fn : {"paymentIdFromPayload"}, payload : JsonPayloads, variant : VariantOps]

\* JSON.stringify of a primitive and of a key.
Quote(s) == "\"" \o s \o "\""

JSONstringify(value) ==
    CASE value.t = "number" -> IF value.n = 1 THEN "1" ELSE "0"
      [] value.t = "string" -> Quote(value.s)
      [] value.t = "null" -> "null"

RECURSIVE join(_)
join(parts) ==
    IF parts = <<>> THEN ""
    ELSE IF Len(parts) = 1 THEN parts[1]
    ELSE parts[1] \o "," \o join(Tail(parts))

ObjectKeys(obj) == [i \in DOMAIN obj.fields |-> obj.fields[i].k]

\* obj[k] for a key the object has.
Get(obj, k) ==
    obj.fields[CHOOSE i \in DOMAIN obj.fields : obj.fields[i].k = k].v

\* Faulty variant: the keys stay in insertion order.
sort_AsInserted(keys) == keys

sort(keys) ==
    SelectSeq(KeyOrder, LAMBDA k : \E i \in DOMAIN keys : keys[i] = k)

RECURSIVE stableStringify(_)
stableStringify(value) ==
    IF value.t \notin {"object", "array"} THEN JSONstringify(value)
    ELSE IF value.t = "array"
    THEN "[" \o join([i \in DOMAIN value.items |->
                         stableStringify(value.items[i])]) \o "]"
    ELSE LET keys == sort(ObjectKeys(value))
             parts == [i \in DOMAIN keys |->
                          Quote(keys[i]) \o ":"
                              \o stableStringify(Get(value, keys[i]))]
         IN  "{" \o join(parts) \o "}"

\* SHA-256 in hex: a function of the text, taken to be free of collisions.
sha256Hex(text) == "sha256(" \o text \o ")"

paymentIdFromPayloadObject(payload) == sha256Hex(stableStringify(payload))

FingerprintInit ==
    EndpointIdle /\ fnArg \in FingerprintCalls /\ fnRet = NoCall

CallPaymentIdFromPayload ==
    /\ fnArg.fn = "paymentIdFromPayload"
    /\ fnRet = NoCall
    /\ fnRet' = [fn |-> "paymentIdFromPayload",
                 canonical |-> stableStringify(fnArg.payload),
                 other |-> VariantOf(fnArg.payload, fnArg.variant),
                 otherCanonical |->
                     stableStringify(VariantOf(fnArg.payload, fnArg.variant)),
                 id |-> paymentIdFromPayloadObject(fnArg.payload),
                 otherId |-> paymentIdFromPayloadObject(
                                 VariantOf(fnArg.payload, fnArg.variant)),
                 throws |-> FALSE]
    /\ UNCHANGED <<endpointVars, config, whitelistCache, fnArg>>

FingerprintNext == CallPaymentIdFromPayload

FingerprintSpec == FingerprintInit /\ [][FingerprintNext]_vars

\* ---------------------------------------------------------------- store.ts ledger
\* The exported ledger operations called one after another on
\* mint-store.json. Each call reads the file first, and the read can fail
\* or find text that does not parse; each write can throw. fnRet keeps, with
\* the value returned, whether the read inside the call succeeded.

MaxMints == 3

EmptyStore == [mints |-> [a \in Addresses |-> 0], processedPayments |-> {}]

\* readStore: the catch returns an empty store.
readStore(st, readOk) == IF readOk THEN st ELSE EmptyStore

LedgerCallers == {"0xAlice", "0xalice", "0xBob"}

StoreInit == EndpointIdle /\ fnArg = [fn |-> "store"] /\ fnRet = NoCall

CallGetMintCount(address, readOk) ==
    /\ fnArg.fn = "store"
    /\ fnRet' = [fn |-> "getMintCount", arg |-> address,
                 result |-> getMintCount(readStore(store, readOk), address),
                 readOk |-> readOk, throws |-> FALSE]
    /\ UNCHANGED <<revision, whitelistEnabled, perAddressLimit, store, pc,
                   reqPayload, reqStatus, payer, mintTo, verifyReason, result,
                   trace, doneBefore, fnArg, config, whitelistCache>>

CallIncMintCount(address, by, readOk, writable) ==
    /\ fnArg.fn = "store"
    /\ getMintCount(store, address) + by <= MaxMints
    /\ store' = IF writable
                THEN incMintCount(readStore(store, readOk), address, by)
                ELSE store
    /\ fnRet' = [fn |-> "incMintCount", arg |-> address, by |-> by,
                 result |-> IF writable
                            THEN getMintCount(store', address)
                            ELSE 0,
                 readOk |-> readOk, throws |-> ~writable]
    /\ UNCHANGED <<revision, whitelistEnabled, perAddressLimit, pc,
                   reqPayload, reqStatus, payer, mintTo, verifyReason, result,
                   trace, doneBefore, fnArg, config, whitelistCache>>

CallMarkPaymentProcessed(paymentId, readOk, writable) ==
    /\ fnArg.fn = "store"
    /\ store' = IF writable
                THEN markPaymentProcessed(readStore(store, readOk), paymentId)
                ELSE store
    /\ fnRet' = [fn |-> "markPaymentProcessed", arg |-> paymentId,
                 result |-> 0, readOk |-> readOk, throws |-> ~writable]
    /\ UNCHANGED <<revision, whitelistEnabled, perAddressLimit, pc,
                   reqPayload, reqStatus, payer, mintTo, verifyReason, result,
                   trace, doneBefore, fnArg, config, whitelistCache>>

CallIsPaymentProcessed(paymentId, readOk) ==
    /\ fnArg.fn = "store"
    /\ fnRet' = [fn |-> "isPaymentProcessed", arg |-> paymentId,
                 result |-> IF isPaymentProcessed(readStore(store, readOk),
                                                  paymentId)
                            THEN 1 ELSE 0,
                 readOk |-> readOk, throws |-> FALSE]
    /\ UNCHANGED <<revision, whitelistEnabled, perAddressLimit, store, pc,
                   reqPayload, reqStatus, payer, mintTo, verifyReason, result,
                   trace, doneBefore, fnArg, config, whitelistCache>>

StoreNext ==
    \/ \E a \in LedgerCallers, ok \in BOOLEAN : CallGetMintCount(a, ok)
    \/ \E a \in LedgerCallers, by \in {1, 2}, ok \in BOOLEAN, w \in BOOLEAN :
          CallIncMintCount(a, by, ok, w)
    \/ \E id \in PaymentIds, ok \in BOOLEAN, w \in BOOLEAN :
          CallMarkPaymentProcessed(id, ok, w)
    \/ \E id \in PaymentIds, ok \in BOOLEAN : CallIsPaymentProcessed(id, ok)

StoreSpec == StoreInit /\ [][StoreNext]_vars

\* ---------------------------------------------------------------- gate order
\* One request handled by a server that starts on a ledger left by earlier
\* runs, under a policy that may have changed since: the store file outlives
\* the process, the policy and the allow-list are edited by the operator.

\* Ledgers in which every processed payment of a payer has been counted.
StartStores ==
    {st \in [mints : [Addresses -> {0, 1, 2}],
             processedPayments : SUBSET PaymentIds] :
        \A a \in Addresses :
            Cardinality({pl \in Payloads :
                            /\ toLowerCase(SignerOf(pl)) = a
                            /\ paymentIdFromPayload(pl) \in st.processedPayments})
                <= st.mints[a]}

GateOrderInit ==
    /\ revision \in {"markBeforeSettle", "markAfterSettle"}
    /\ whitelistEnabled \in BOOLEAN
    /\ perAddressLimit \in Limits
    /\ store \in StartStores
    /\ pc = [r \in Requests |-> "idle"]
    /\ reqPayload = [r \in Requests |-> NoPayload]
    /\ reqStatus = [r \in Requests |-> ""]
    /\ payer = [r \in Requests |-> ""]
    /\ mintTo = [r \in Requests |-> ""]
    /\ verifyReason = [r \in Requests |-> ""]
    /\ result = [r \in Requests |-> NoResult]
    /\ trace = [r \in Requests |-> <<>>]
    /\ doneBefore = [r \in Requests |-> {}]
    /\ fnArg = NoCall
    /\ fnRet = NoCall
    /\ config = ConfigFresh
    /\ whitelistCache = WhitelistFresh

GateOrderNext ==
    \/ \E r \in {1}, pl \in Payloads \cup {NoPayload},
          st \in {"payment-submitted", "payment-required"} : Receive(r, pl, st)
    \/ \E r \in {1}, v \in VerifyOutcomes : VerifyReturn(r, v)
    \/ \E r \in {1}, m \in MintOutcomes, w \in BOOLEAN : MintReturn(r, m, w)
    \/ \E r \in {1}, s \in SettleOutcomes, w \in BOOLEAN : SettleReturn(r, s, w)

GateOrderSpec == GateOrderInit /\ [][GateOrderNext]_vars

\* ---------------------------------------------------------------- presentations
\* Two submissions to /mint: what verifyPaymentLocally says of each and the
\* fingerprint the handler computes of each submitted object. A submission
\* writes the addresses of the authorization in checksum or lower case and
\* may carry a field nobody reads, at the top or inside the authorization.
Presentations ==
    [from : {"0xAlice", "0xalice"}, to : {"0xMerchant", "0xmerchant"},
     nonce : {"n1", "n2"}, extra : {"none", "top", "authorization"}]

\* The signature is made once per authorization, here one per nonce.
SignatureOf(pr) == "sig-" \o pr.nonce

ExtraField(pr, where) ==
    IF pr.extra = where THEN <<[k |-> "extra", v |-> Str("1")]>> ELSE <<>>

\* req.body.paymentPayload as parsed by express.json().
SubmittedObject(pr) ==
    Obj(<<[k |-> "network", v |-> Str(RequiredNetwork)],
          [k |-> "payload",
           v |-> Obj(<<[k |-> "authorization",
                        v |-> Obj(<<[k |-> "from", v |-> Str(pr.from)],
                                    [k |-> "to", v |-> Str(pr.to)],
                                    [k |-> "value", v |-> Str("100")],
                                    [k |-> "nonce", v |-> Str(pr.nonce)]>>
                                      \o ExtraField(pr, "authorization"))],
                       [k |-> "signature", v |-> Str(SignatureOf(pr))]>>)]>>
            \o ExtraField(pr, "top"))

\* The same submission as verifyPaymentLocally sees it: the typed data is
\* built from the six named fields only and addresses are encoded as bytes,
\* so the signer recovered is the one who signed, whatever the letter case.
VerifyArgsOf(pr) ==
    [fn |-> "verifyPaymentLocally", authorization |-> TRUE, signature |-> TRUE,
     scheme |-> RequiredScheme, network |-> RequiredNetwork, to |-> pr.to,
     value |-> "100", maxAmountRequired |-> "100",
     validAfter |-> "10", validBefore |-> "20", now |-> 15,
     from |-> pr.from, recovered |-> "0xAlice"]

PresentationCalls ==
    [fn : {"submitTwice"}, first : Presentations, second : Presentations]

PresentationInit ==
    EndpointIdle /\ fnArg \in PresentationCalls /\ fnRet = NoCall

CallSubmitTwice ==
    /\ fnArg.fn = "submitTwice" /\ fnRet = NoCall
    /\ fnRet' = [fn |-> "submitTwice",
                 firstValid |-> verifyPaymentLocally(VerifyArgsOf(fnArg.first)).isValid,
                 secondValid |-> verifyPaymentLocally(VerifyArgsOf(fnArg.second)).isValid,
                 firstId |-> paymentIdFromPayloadObject(SubmittedObject(fnArg.first)),
                 secondId |-> paymentIdFromPayloadObject(SubmittedObject(fnArg.second)),
                 throws |-> FALSE]
    /\ UNCHANGED <<endpointVars, config, whitelistCache, fnArg>>

PresentationNext == CallSubmitTwice

PresentationSpec == PresentationInit /\ [][PresentationNext]_vars

\* ---------------------------------------------------------------- the two caches
\* getConfig and isWhitelisted called while time passes and the operator
\* edits server-config.json or WLaddress.txt. Every edit of the policy file
\* gives it a modification time it did not have before.

MaxEdits == 2

\* What the operator writes into server-config.json, or its removal.
ConfigEdits ==
    {[state |-> "json", mtimeMs |-> 1, whitelistEnabled |-> "true",
      perAddressLimit |-> "5"],
     [state |-> "json", mtimeMs |-> 1, whitelistEnabled |-> "false",
      perAddressLimit |-> "undefined"],
     [state |-> "unparseable", mtimeMs |-> 1, whitelistEnabled |-> "undefined",
      perAddressLimit |-> "undefined"],
     [state |-> "absent", mtimeMs |-> 1, whitelistEnabled |-> "undefined",
      perAddressLimit |-> "undefined"]}

EditConfig(f) ==
    /\ fnArg.fn = "getConfig"
    /\ fnArg.file.mtimeMs <= MaxEdits
    /\ fnArg' = [fnArg EXCEPT
                    !.file = [f EXCEPT !.mtimeMs = fnArg.file.mtimeMs + 1]]
    /\ UNCHANGED <<endpointVars, config, whitelistCache, fnRet>>

CacheWorlds ==
    {w \in ConfigWorlds : /\ w.envWhitelist \in {"undefined", "0"}
                          /\ w.envLimit \in {"undefined", "5"}}
        \cup {w \in WhitelistWorlds : w.address \in {"0xAlice", "0xBob"}}

CacheInit == EndpointIdle /\ fnArg \in CacheWorlds /\ fnRet = NoCall

CacheNext ==
    \/ CallGetConfig
    \/ Tick
    \/ \E f \in ConfigEdits : EditConfig(f)
    \/ CallIsWhitelisted
    \/ WhitelistTick
    \/ \E f \in WhitelistEdits : RewriteWhitelist(f)

CacheSpec == CacheInit /\ [][CacheNext]_vars

\* ---------------------------------------------------------------- settlement mode
\* Requests served after one start of the process.
MaxCalls == 2

\* The environment of one start.  "undefined": the variable is unset.
\* PRIVATE_KEY is a 32-byte key with or without the 0x prefix, or text that
\* is no key at all.
StartupEnvs ==
    [fn : {"startup"},
     SETTLEMENT_MODE : {"undefined", "local", "direct", "facilitator",
                        "LOCAL", "Direct", "hosted"},
     FACILITATOR_URL : {"undefined", "https://facilitator"},
     PRIVATE_KEY : {"undefined", "0xkey64", "key64", "notakey"},
     RPC_URL : {"undefined", "https://rpc"}]

\* An environment string that is set and not empty (truthy in JavaScript).
IsSet(s) == s # "undefined" /\ s # ""

\* process.env.SETTLEMENT_MODE?.toLowerCase()
SETTLEMENT_MODE_ENV(env) == toLowerCase(env.SETTLEMENT_MODE)

\* The if-chain that assigns settlementMode.
settlementMode(env) ==
    IF SETTLEMENT_MODE_ENV(env) \in {"local", "direct"} THEN "direct"
    ELSE IF SETTLEMENT_MODE_ENV(env) = "facilitator" THEN "facilitator"
    ELSE IF IsSet(env.FACILITATOR_URL) THEN "facilitator"
    ELSE IF IsSet(env.PRIVATE_KEY) THEN "direct"
    ELSE "facilitator"

\* process.exit(1) before anything listens.
StartupExits(env) ==
    settlementMode(env) = "direct" /\ ~IsSet(env.PRIVATE_KEY)

\* getDefaultRpcUrl('base')
DefaultRpcUrl == "https://mainnet.base.org"

\* What the executor is built with: the key and an RPC endpoint (RPC_URL or
\* the default of the network) in direct mode, nothing otherwise.
directSettlementOf(env, mode) ==
    IF mode = "direct"
    THEN [rpcUrl |-> IF IsSet(env.RPC_URL) THEN env.RPC_URL
                     ELSE DefaultRpcUrl,
          privateKey |-> env.PRIVATE_KEY]
    ELSE [rpcUrl |-> "undefined", privateKey |-> "undefined"]

\* privateKey.startsWith('0x') ? privateKey : `0x${privateKey}`
normalizedKey(privateKey) ==
    CASE privateKey = "key64" -> "0xkey64"
      [] OTHER -> privateKey

\* new ethers.Wallet(key, provider) throws unless the key is 32 bytes of hex.
WalletThrows(key) == key # "0xkey64"

\* The constructor's value of directSettlementEnabled: true only when both
\* fields are given and the wallet is built; the catch leaves it false.
directSettlementEnabled(directSettlement) ==
    /\ IsSet(directSettlement.rpcUrl)
    /\ IsSet(directSettlement.privateKey)
    /\ ~WalletThrows(normalizedKey(directSettlement.privateKey))

\* The strategy verifyPayment and settlePayment branch to.
StrategyOf(enabled) == IF enabled THEN "direct" ELSE "facilitator"

ModeBoot ==
    [fn |-> "startup", phase |-> "boot", settlementMode |-> "undefined",
     directSettlementEnabled |-> FALSE, calls |-> <<>>]

ModeInit ==
    EndpointIdle /\ fnArg \in StartupEnvs /\ fnRet = ModeBoot

\* The top level of the server module: resolve the mode, exit or build the
\* executor and listen.
Startup ==
    /\ fnArg.fn = "startup" /\ fnRet.phase = "boot"
    /\ fnRet' =
         [fnRet EXCEPT
            !.settlementMode = settlementMode(fnArg),
            !.phase = IF StartupExits(fnArg) THEN "exited" ELSE "listening",
            !.directSettlementEnabled =
                ~StartupExits(fnArg)
                /\ directSettlementEnabled(
                       directSettlementOf(fnArg, settlementMode(fnArg)))]
    /\ UNCHANGED <<endpointVars, config, whitelistCache, fnArg>>

\* fnRet after one call of op on the executor, which reads the flag the
\* constructor set.
Served(op) ==
    [fnRet EXCEPT
       !.calls = Append(@, [op |-> op,
                            strategy |-> StrategyOf(
                                fnRet.directSettlementEnabled)])]

RequestVerifies ==
    /\ fnArg.fn = "startup" /\ fnRet.phase = "listening"
    /\ Len(fnRet.calls) < MaxCalls
    /\ fnRet' = Served("verifyPayment")
    /\ UNCHANGED <<endpointVars, config, whitelistCache, fnArg>>

RequestSettles ==
    /\ fnArg.fn = "startup" /\ fnRet.phase = "listening"
    /\ Len(fnRet.calls) < MaxCalls
    /\ fnRet' = Served("settlePayment")
    /\ UNCHANGED <<endpointVars, config, whitelistCache, fnArg>>

ModeNext == Startup \/ RequestVerifies \/ RequestSettles

ModeSpec == ModeInit /\ [][ModeNext]_vars

\* ---------------------------------------------------------------- trace helpers
InSeq(s, e) == \E i \in 1..Len(s) : s[i] = e

InTrace(r, e) == InSeq(trace[r], e)

\* Position of the first occurrence of e in the trace of r (0 if absent).
Pos(r, e) ==
    IF InTrace(r, e) THEN CHOOSE i \in 1..Len(trace[r]) :
                            trace[r][i] = e /\ \A j \in 1..(i - 1) : trace[r][j] # e
    ELSE 0

Submitted(r) == reqPayload[r] \in Payloads

SamePayment(r, q) ==
    /\ r # q /\ Submitted(r) /\ Submitted(q)
    /\ paymentIdFromPayload(reqPayload[r]) = paymentIdFromPayload(reqPayload[q])

\* The distinct payments for which a mint to address a succeeded.
MintedPayments(a) ==
    {paymentIdFromPayload(reqPayload[r]) :
        r \in {q \in Requests : payer[q] = a /\ InTrace(q, "mintOk")}}

\* Events of a request that act on the outside world or on the ledgers.
NoEffects(tr) ==
    /\ ~InSeq(tr, "mint") /\ ~InSeq(tr, "settle")
    /\ ~InSeq(tr, "inc") /\ ~InSeq(tr, "mark")

\* Request r received the answer of the collaborator named by event e in this step.
Gains(r, e) == ~InSeq(trace[r], e) /\ InSeq(trace'[r], e)

\* Request r got a valid verification with a payer in this step.
Admitted(r) == Gains(r, "verifyValid") /\ payer'[r] # ""

\* ---------------------------------------------------------------- C1
\* C1: once mintToAddress has succeeded for a payment in a submission that was
\* answered, no later submission of the same payload invokes mintToAddress,
\* whatever the settlement outcome of the earlier submission was.
C1_MintAtMostOncePerPayload ==
    [][\A r \in Requests : Gains(r, "mint") =>
          ~\E q \in doneBefore[r] : SamePayment(r, q) /\ InTrace(q, "mintOk")]_vars

\* ---------------------------------------------------------------- C2
\* C2: markPaymentProcessed is executed only after settlePayment has returned
\* success for the same payment: in the trace of every request the mark follows
\* a settlement success, and every marked id has a settlement success.
C2_MarkOnlyAfterSettleSuccess ==
    /\ \A r \in Requests : InTrace(r, "mark") =>
          (InTrace(r, "settleOk") /\ Pos(r, "settleOk") < Pos(r, "mark"))
    /\ \A id \in store.processedPayments :
          \E r \in Requests : /\ Submitted(r)
                              /\ paymentIdFromPayload(reqPayload[r]) = id
                              /\ InTrace(r, "settleOk")

\* ---------------------------------------------------------------- C3
\* C3: two concurrent requests (neither was answered when the other arrived)
\* carrying the same payload never both perform the side effect.
C3_ConcurrentSamePayloadMintOnce ==
    \A r, q \in Requests :
        (SamePayment(r, q) /\ r \notin doneBefore[q] /\ q \notin doneBefore[r])
            => ~(InTrace(r, "mintOk") /\ InTrace(q, "mintOk"))

\* ---------------------------------------------------------------- C4
\* C4: when the gate is enabled and the verified payer is not on the allow-list,
\* the request ends as address-not-whitelisted (403) without calling
\* mintToAddress or settlePayment and without writing either ledger.
C4_DeniedNoEffects ==
    /\ [][\A r \in Requests :
            (Admitted(r) /\ whitelistEnabled /\ payer'[r] \notin WhitelistFile) =>
                /\ pc'[r] = "done"
                /\ result'[r].kind = "address-not-whitelisted"
                /\ result'[r].status = 403
                /\ NoEffects(trace'[r])
                /\ store' = store]_vars
    /\ [](\A r \in Requests : result[r].kind = "address-not-whitelisted" =>
            (pc[r] = "done" /\ NoEffects(trace[r])))

C4_Witness ==
    \E r \in Requests : /\ result[r].kind = "address-not-whitelisted"
                        /\ payer[r] = "0xbob"
                        /\ InTrace(r, "verifyValid")

\* ---------------------------------------------------------------- C5
\* C5: when mintToAddress reports failure the request ends as mint-failed,
\* settlePayment is never called for it, and neither the quota count nor the
\* idempotency ledger changes.
C5_MintFailedNoSettle ==
    /\ [][\A r \in Requests : Gains(r, "mintFail") =>
            /\ pc'[r] = "done"
            /\ result'[r].kind = "mint-failed"
            /\ store' = store]_vars
    /\ [](\A r \in Requests : InTrace(r, "mintFail") =>
            /\ pc[r] = "done"
            /\ result[r].kind = "mint-failed"
            /\ ~InTrace(r, "settle") /\ ~InTrace(r, "inc") /\ ~InTrace(r, "mark"))

C5_Witness ==
    \E r \in Requests : /\ InTrace(r, "mintFail")
                        /\ result[r].kind = "mint-failed"
                        /\ store.mints[payer[r]] = 0

\* ---------------------------------------------------------------- C6
\* C6: after a submission whose mint succeeded and whose settlement failed, the
\* outcome is settlement-failed, the quota was incremented, the payment is not
\* marked, and a later submission of the same payload is not short-circuited
\* as already processed and does not invoke mintToAddress again.
C6_SettlementFailedRetry ==
    \A r \in Requests :
        (pc[r] = "done" /\ InTrace(r, "mintOk") /\ InTrace(r, "settleFail")) =>
            /\ result[r].kind = "settlement-failed"
            /\ InTrace(r, "inc")
            /\ ~InTrace(r, "mark")
            /\ \A q \in Requests : (SamePayment(r, q) /\ r \in doneBefore[q]) =>
                  /\ result[q].kind # "already-processed"
                  /\ ~InTrace(q, "mint")

C8_MintsWithinLimit ==
    \A L \in perAddressLimit : \A a \in Addresses :
        Cardinality(MintedPayments(a)) <= L

\* ---------------------------------------------------------------- C9
\* C9: incMintCount for a payer happens only after a mint success in the same
\* request and before settlePayment is invoked for it; every mint success
\* whose store write went through is counted (by exactly one, for the payer of
\* the request) whatever the settlement outcome, and nothing else changes a
\* count.
C9_IncrementOrdering ==
    /\ [](\A r \in Requests :
            /\ InTrace(r, "inc") =>
                  (InTrace(r, "mintOk") /\ Pos(r, "mintOk") < Pos(r, "inc"))
            /\ InTrace(r, "settle") =>
                  (InTrace(r, "inc") /\ Pos(r, "inc") < Pos(r, "settle"))
            /\ (InTrace(r, "mintOk") /\ ~InTrace(r, "writeThrew"))
                  => InTrace(r, "inc"))
    /\ [][/\ \A r \in Requests : Gains(r, "inc") =>
                store'.mints[payer[r]] = store.mints[payer[r]] + 1
          /\ \A a \in Addresses : store'.mints[a] # store.mints[a] =>
                \E r \in Requests : payer[r] = a /\ Gains(r, "inc")]_vars

C9_Witness ==
    \E r \in Requests : /\ pc[r] = "done"
                        /\ InTrace(r, "settleFail")
                        /\ InTrace(r, "inc")
                        /\ store.mints[payer[r]] >= 1

\* ---------------------------------------------------------------- C10
\* C10: when verification returns an invalid outcome the request ends as
\* payment-rejected (402) carrying the verifier's reason (or the default text
\* when the verifier gave none), and it causes no gate outcome, no mint, no
\* settlement and no ledger write.
C10_InvalidRejected ==
    /\ [][\A r \in Requests : Gains(r, "verifyInvalid") =>
            /\ pc'[r] = "done"
            /\ result'[r].kind = "payment-rejected"
            /\ result'[r].status = 402
            /\ result'[r].reason =
                  (IF verifyReason'[r] = "" THEN "Invalid payment" ELSE verifyReason'[r])
            /\ payer'[r] = ""
            /\ NoEffects(trace'[r])
            /\ store' = store]_vars
    /\ [](\A r \in Requests : InTrace(r, "verifyInvalid") =>
            /\ pc[r] = "done"
            /\ result[r].kind = "payment-rejected"
            /\ NoEffects(trace[r]))

C10_Witness ==
    \E r \in Requests : /\ InTrace(r, "verifyInvalid")
                        /\ result[r].kind = "payment-rejected"
                        /\ result[r].reason = "expired"

\* ---------------------------------------------------------------- C11
\* The signer the verifier recovers from the payload of request r, lowercased.
SignerKey(r) == toLowerCase(SignerOf(reqPayload[r]))

\* Request r carried no payload, or a status flag other than payment-submitted.
Unpaid(r) ==
    /\ pc[r] # "idle"
    /\ reqPayload[r] = NoPayload \/ reqStatus[r] # "payment-submitted"

\* C11: a request without a payment payload, or whose status flag is not
\* payment-submitted, is answered at once with the payment-required response
\* (402): verifyPayment, the gates, mintToAddress and settlePayment are never
\* invoked for it and both ledgers are left as they were.
C11_UnpaidAnsweredAtOnce ==
    /\ [](\A r \in Requests : Unpaid(r) =>
            /\ pc[r] = "done"
            /\ result[r].status = 402 /\ result[r].kind = "payment-required"
            /\ trace[r] = <<>> /\ payer[r] = "" /\ mintTo[r] = "")
    /\ [][\A r \in Requests : (pc[r] = "idle" /\ Unpaid(r)') => store' = store]_vars

C11_Witness ==
    \E r \in Requests : /\ Unpaid(r)
                        /\ reqPayload[r] \in Payloads
                        /\ reqStatus[r] = "payment-required"
                        /\ result[r].kind = "payment-required"

\* ---------------------------------------------------------------- C12
\* C12: the identity used for the allow-list check, as the quota key and as
\* the mint recipient is the signer recovered from the signed authorization,
\* never the identity the caller asserted: the payer of a request, the address
\* minted to and the counter incremented are those of the signer, a gate
\* denial means the signer is not listed, a mint under an enabled gate means
\* the signer is listed, and a quota denial means the signer's count reached
\* the limit.
C12_IdentityIsRecoveredSigner ==
    /\ [](\A r \in Requests :
            /\ payer[r] # "" => payer[r] = SignerKey(r)
            /\ mintTo[r] # "" => mintTo[r] = SignerKey(r)
            /\ result[r].kind = "address-not-whitelisted" =>
                  SignerKey(r) \notin WhitelistFile
            /\ (InTrace(r, "mint") /\ whitelistEnabled) =>
                  SignerKey(r) \in WhitelistFile
            /\ result[r].kind = "mint-limit-reached" =>
                  \E L \in perAddressLimit : store.mints[SignerKey(r)] >= L)
    /\ [][\A r \in Requests : Gains(r, "inc") =>
            store'.mints[SignerKey(r)] = store.mints[SignerKey(r)] + 1]_vars

\* A payload signed by Alice that names Bob is minted to Alice under an
\* enabled allow-list, and one signed by Bob that names Alice is denied.
C12_Witness ==
    /\ whitelistEnabled
    /\ \E r, q \in Requests :
          /\ reqPayload[r] = "pl2" /\ toLowerCase(AssertedBy("pl2")) # SignerKey(r)
          /\ InTrace(r, "inc") /\ mintTo[r] = "0xalice"
          /\ reqPayload[q] = "pl3" /\ result[q].kind = "address-not-whitelisted"

\* ---------------------------------------------------------------- C13
\* Request r passed verification and the allow-list in this step, so it
\* reaches the idempotency lookup.
ReachesLookup(r) ==
    /\ Admitted(r)
    /\ ~(whitelistEnabled /\ payer'[r] \notin WhitelistFile)

C14_ReplayReturnsRecordedOutcome ==
    \A q \in Requests : result[q].kind = "already-processed" =>
        \A r \in doneBefore[q] :
            (SamePayment(r, q) /\ result[r].kind = "success") =>
                /\ result[q].mintTxHash = result[r].mintTxHash
                /\ result[q].settlementTx = result[r].settlementTx

\* ---------------------------------------------------------------- C15
\* C15: a request whose mint succeeded and whose settlePayment returned a
\* failed outcome is answered with the settlement-failure outcome, and never
\* with the success response.
C15_SettleFailureNotSuccess ==
    \A r \in Requests : (pc[r] = "done" /\ InTrace(r, "settleFail")) =>
        /\ result[r].kind = "settlement-failed"
        /\ result[r].status # 200

\* ---------------------------------------------------------------- C16
\* C16: no request ends after a successful mintToAddress without settlePayment
\* having been invoked for it, also when a store write between the mint and
\* the settlement fails.
C16_SettleAttemptedAfterMint ==
    \A r \in Requests : (pc[r] = "done" /\ InTrace(r, "mintOk")) =>
        InTrace(r, "settle")

\* ---------------------------------------------------------------- C17
\* C17: every settlement invocation eventually returns: a request that is
\* waiting for settlePayment eventually gets its answer (settlement failed or
\* completed), a timeout ending the call when the facilitator or the chain
\* never responds.
C17_SettlementEventuallyReturns ==
    \A r \in Requests : (pc[r] = "awaitSettle") ~> (pc[r] = "done")

\* ---------------------------------------------------------------- C18
\* The call of settleOnChain went as far as the try block.
OnChainTried == fnArg.wallet /\ fnArg.authorization /\ fnArg.signature

\* One of the three steps of the try block threw.
OnChainStepThrew ==
    ~fnArg.decodes \/ fnArg.submit = "throws" \/ fnArg.wait = "throws"

\* C18: direct settlement never lets a fault through: an error raised while
\* decoding the signature, submitting transferWithAuthorization or waiting for
\* the receipt comes back as a failed outcome carrying the error's message;
\* the outcome is a success only when the mined receipt has status 1, and a
\* receipt with any other status gives the failed outcome 'Transaction
\* reverted'.
C18_DirectSettleNeverThrows ==
    [](fnRet # NoCall =>
        /\ ~fnRet.throws
        /\ (OnChainTried /\ OnChainStepThrew) =>
              (~fnRet.success /\ fnRet.errorReason = fnArg.message)
        /\ fnRet.success =>
              (OnChainTried /\ ~OnChainStepThrew /\ fnArg.wait = "status1")
        /\ (OnChainTried /\ ~OnChainStepThrew /\ fnArg.wait # "status1") =>
              (~fnRet.success /\ fnRet.errorReason = "Transaction reverted"))

C18_Witness ==
    /\ fnRet # NoCall /\ OnChainTried
    /\ fnArg.decodes /\ fnArg.submit = "sent" /\ fnArg.wait = "throws"
    /\ ~fnRet.success /\ fnRet.errorReason = fnArg.message

\* ---------------------------------------------------------------- C19
\* C19: settlement through the facilitator returns a failed outcome (success
\* false, nothing thrown) for every response that is not 2xx and for every
\* transport error, and an outcome that counts as settled only when the body
\* of a 2xx response reports success; a body whose success field is missing or
\* falsy is never returned as settled.
C19_RemoteSettleFailsClosed ==
    [](fnRet # NoCall =>
        /\ ~fnRet.throws
        /\ (fnArg.fetch = "throws" \/ ~fnArg.ok) => fnRet.success = "false"
        /\ Truthy(fnRet.success) =>
              /\ fnArg.fetch = "responds" /\ fnArg.ok /\ fnArg.body = "object"
              /\ fnArg.success \in {"true", "'ok'"}
        /\ fnArg.success \in {"false", "undefined", "null", "0", "''"} =>
              fnRet.success \notin {"true", "'ok'"})

C19_Witness ==
    /\ fnRet # NoCall
    /\ fnArg.fetch = "responds" /\ ~fnArg.ok /\ fnArg.body = "object"
    /\ fnArg.success = "true" /\ fnRet.success = "false"

\* ---------------------------------------------------------------- C20
\* C20: local verification returns a valid outcome only when the signer
\* recovered from the signature equals the payload's from address, letter case
\* aside, and the payer of a valid outcome is the recovered signer; a payload
\* whose from differs from the recovered signer, or whose signature cannot be
\* recovered, gets an invalid outcome.
C20_ValidOnlyForMatchingSigner ==
    [](fnRet # NoCall =>
        /\ fnRet.isValid =>
              /\ fnArg.recovered \in {"0xAlice", "0xBob"}
              /\ toLowerCase(fnArg.recovered) = toLowerCase(fnArg.from)
              /\ fnRet.payer = fnArg.recovered
        /\ (\/ fnArg.recovered = "throws"
            \/ toLowerCase(fnArg.recovered) # toLowerCase(fnArg.from)) =>
              ~fnRet.isValid)

C20_Witness ==
    /\ fnRet # NoCall /\ fnRet.isValid
    /\ fnArg.from = "0xalice" /\ fnArg.recovered = "0xAlice"
    /\ fnRet.payer = "0xAlice"

\* ---------------------------------------------------------------- C21
\* The amounts in their decimal writing, compared digit count first: the
\* value is an integer smaller than the required amount.
WrittenSmaller(value, required) ==
    \/ value = "-1"
    \/ value = "99" /\ required \in {"100", "9007199254740993"}
    \/ value = "100" /\ required = "9007199254740993"
    \/ value = "9007199254740992" /\ required = "9007199254740993"

\* C21: a payload whose authorization value is smaller than the requirement's
\* maxAmountRequired, or is not an integer, is invalid, the amounts being
\* compared exactly whatever their size; so a valid outcome implies
\* value >= maxAmountRequired.
C21_AmountAtLeastRequired ==
    [](fnRet # NoCall =>
        /\ fnArg.value = "1.5" => ~fnRet.isValid
        /\ WrittenSmaller(fnArg.value, fnArg.maxAmountRequired) => ~fnRet.isValid)

\* An amount one below a required amount above 2^53 is refused as too small,
\* everything else in the payload being in order.
C21_Witness ==
    /\ fnRet # NoCall
    /\ fnArg.value = "9007199254740992"
    /\ fnArg.maxAmountRequired = "9007199254740993"
    /\ fnRet.invalidReason = "Authorized amount is less than required amount"

\* ---------------------------------------------------------------- C22
\* C22: a valid outcome implies that validAfter and validBefore are
\* non-negative integers and that validAfter <= now < validBefore, now being
\* the Unix time in seconds read during the verification.
C22_ValidOnlyInsideWindow ==
    [](fnRet # NoCall => (fnRet.isValid =>
        /\ fnArg.validAfter \in {"0", "10", "15", "20"}
        /\ fnArg.validBefore \in {"0", "10", "15", "20"}
        /\ NumberOf(fnArg.validAfter) <= fnArg.now
        /\ fnArg.now < NumberOf(fnArg.validBefore)))

\* Valid at the first second of the window.
C22_Witness ==
    /\ fnRet # NoCall /\ fnRet.isValid
    /\ fnArg.validAfter = "15" /\ fnArg.now = 15 /\ fnArg.validBefore = "20"

\* ---------------------------------------------------------------- C23
\* C23: a payload whose scheme differs from the requirement's scheme, or whose
\* network differs from the requirement's network, is invalid; a valid outcome
\* implies both are equal.
C23_SchemeAndNetworkMatch ==
    fnRet # NoCall =>
        (fnRet.isValid =>
            fnArg.scheme = RequiredScheme /\ fnArg.network = RequiredNetwork)

\* ---------------------------------------------------------------- C24
\* The payload lacks a part or carries a field that cannot be parsed.
Malformed(a) ==
    \/ ~a.inner \/ ~a.authorization \/ ~a.signature
    \/ a.value = "1.5" \/ a.validAfter \in {"undefined", "soon"}
    \/ a.from = "undefined"

\* C24: a payload with missing or unparseable fields (no inner payload
\* object, no authorization, no signature, ...) gets an invalid outcome as a
\* returned result: verifyPayment does not throw for it, so the request is
\* answered as rejected and never as an internal error.
C24_MalformedIsRejected ==
    (fnRet # NoCall /\ Malformed(fnArg)) => (~fnRet.throws /\ ~fnRet.isValid)

\* ---------------------------------------------------------------- C25
\* C25: when the policy file sets perAddressLimit to null, getConfig() returns
\* perAddressLimit = null (unlimited), whatever the environment default is.
C25_NullLimitIsUnlimited ==
    (/\ fnRet # NoCall
     /\ fnArg.file.state = "json" /\ fnArg.file.perAddressLimit = "null")
    => fnRet.perAddressLimit = "null"

\* ---------------------------------------------------------------- C26
\* C26: while the policy file exists, is readable and is not modified, every
\* getConfig() call, before and after any number of TTL expiries, returns the
\* values the file sets.
C26_FileValuesSurviveRefresh ==
    (fnRet # NoCall /\ fnArg.file.state = "json") =>
        /\ fnArg.file.whitelistEnabled \in {"true", "false"} =>
              fnRet.whitelistEnabled = fnArg.file.whitelistEnabled
        /\ fnArg.file.perAddressLimit = "5" => fnRet.perAddressLimit = "5"

\* ---------------------------------------------------------------- C27
\* C27: when the policy file is absent or cannot be parsed, getConfig() does
\* not throw and returns the defaults of the environment: the gate enabled
\* unless WHITELIST_ENABLED is 'false' or '0'; the limit 3 unless
\* MINT_PER_ADDRESS_LIMIT gives a non-negative number, and no limit for
\* 'null', '' or '-1'.
C27_DefaultsWhenNoFile ==
    (fnRet # NoCall /\ fnArg.file.state \in {"absent", "unparseable"}) =>
        /\ ~fnRet.throws
        /\ fnArg.envWhitelist \in {"false", "0"} => fnRet.whitelistEnabled = "false"
        /\ fnArg.envWhitelist \in {"undefined", "true", "no"} =>
              fnRet.whitelistEnabled = "true"
        /\ fnArg.envLimit \in {"null", "", "-1"} => fnRet.perAddressLimit = "null"
        /\ fnArg.envLimit = "5" => fnRet.perAddressLimit = "5"
        /\ fnArg.envLimit \in {"undefined", "abc", "-2"} =>
              fnRet.perAddressLimit = "3"

\* ---------------------------------------------------------------- C28
\* C28: isWhitelisted(address) is true exactly when some line of the
\* loaded allow-list text, once trimmed, is not blank, does not start with
\* '#' and equals the address up to letter case; a text of blank and
\* comment lines admits nobody.
CaseClasses == {{"0xAlice", "0xalice"}, {"0xBob", "0xBOB", "0xbob"}}

SameIgnoringCase(a, b) == a = b \/ \E c \in CaseClasses : a \in c /\ b \in c

IsBlankLine(raw) == raw \in {"", "   "}

IsCommentLine(raw) == raw \in {"#0xalice", " # 0xbob"}

Admits(raw, address) ==
    /\ ~IsBlankLine(raw)
    /\ ~IsCommentLine(raw)
    /\ SameIgnoringCase(trim(raw), address)

C28_WhitelistedIffListed ==
    fnRet.fn = "isWhitelisted" =>
        /\ ~fnRet.throws
        /\ fnRet.result =
              (\E i \in DOMAIN whitelistCache.source :
                   Admits(whitelistCache.source[i], fnRet.address))
        /\ (\A i \in DOMAIN whitelistCache.source :
                IsBlankLine(whitelistCache.source[i])
                    \/ IsCommentLine(whitelistCache.source[i]))
              => ~fnRet.result

\* A differently cased, padded line admits the address although a comment
\* line naming it comes first.
C28_Witness ==
    /\ fnRet.fn = "isWhitelisted"
    /\ fnRet.address = "0xAlice"
    /\ whitelistCache.source = <<"#0xalice", " 0xalice ">>
    /\ fnRet.result

\* ---------------------------------------------------------------- C29
\* C29: the fingerprint does not depend on the order of the keys of any
\* object of the payload, at any depth, and two payloads that differ in a
\* field value have different canonical strings.
RECURSIVE SameUpToKeyOrder(_, _)
SameUpToKeyOrder(v, w) ==
    /\ v.t = w.t
    /\ CASE v.t = "object" ->
              /\ {f.k : f \in {v.fields[i] : i \in DOMAIN v.fields}}
                    = {f.k : f \in {w.fields[i] : i \in DOMAIN w.fields}}
              /\ \A i \in DOMAIN v.fields :
                    SameUpToKeyOrder(v.fields[i].v, Get(w, v.fields[i].k))
         [] v.t = "array" ->
              /\ Len(v.items) = Len(w.items)
              /\ \A i \in DOMAIN v.items :
                    SameUpToKeyOrder(v.items[i], w.items[i])
         [] v.t = "number" -> v.n = w.n
         [] v.t = "string" -> v.s = w.s
         [] OTHER -> TRUE

C29_FingerprintIgnoresKeyOrder ==
    fnRet.fn = "paymentIdFromPayload" =>
        /\ ~fnRet.throws
        /\ SameUpToKeyOrder(fnArg.payload, fnRet.other) =>
              fnRet.id = fnRet.otherId
        /\ ~SameUpToKeyOrder(fnArg.payload, fnRet.other) =>
              fnRet.canonical # fnRet.otherCanonical

\* Keys swapped at both depths give one identifier.
C29_Witness ==
    /\ fnRet.fn = "paymentIdFromPayload"
    /\ fnArg.payload =
          Obj(<<[k |-> "a", v |-> Obj(<<[k |-> "a", v |-> Num(1)],
                                        [k |-> "b", v |-> Str("1")]>>)],
                [k |-> "b", v |-> Null]>>)
    /\ fnRet.other = ReverseDeep(fnArg.payload)
    /\ fnRet.other # fnArg.payload
    /\ fnRet.id = fnRet.otherId

\* ---------------------------------------------------------------- C30
\* C30: for every payer the count getMintCount reports never goes down,
\* whatever ledger operations run and whether or not their reads of the
\* store file succeed.
C30_MintCountNeverDecreases ==
    [][\A a \in LedgerCallers :
          getMintCount(store', a) >= getMintCount(store, a)]_vars

\* ---------------------------------------------------------------- C31
\* C31: the gates are evaluated in the order verification, allow-list,
\* idempotency lookup, quota, mint, and the first one that fails decides the
\* answer: a replay by a payer at the limit is answered as already
\* processed, a replay by a payer who is not on the allow-list is denied.
Answered(r, kind) == pc'[r] = "done" /\ result'[r].kind = kind

OffList(r) == whitelistEnabled /\ payer'[r] \notin WhitelistFile

Replayed(r) ==
    paymentIdFromPayload(reqPayload[r]) \in store.processedPayments

AtLimit(r) == \E L \in perAddressLimit : store.mints[payer'[r]] >= L

C31_ReplayAtLimit ==
    \E r \in Requests :
        /\ pc[r] = "done"
        /\ result[r].kind = "already-processed"
        /\ \E L \in perAddressLimit : store.mints[payer[r]] >= L

\* ---------------------------------------------------------------- C32
\* C32: two submissions that verification accepts and that carry the same
\* signed authorization have the same idempotency record, also when they
\* differ in the letter case of the addresses or in an unread extra field.
SameAuthorization(p, q) ==
    /\ toLowerCase(p.from) = toLowerCase(q.from)
    /\ toLowerCase(p.to) = toLowerCase(q.to)
    /\ p.nonce = q.nonce
    /\ SignatureOf(p) = SignatureOf(q)

C32_OneRecordPerAuthorization ==
    (/\ fnRet.fn = "submitTwice"
     /\ fnRet.firstValid /\ fnRet.secondValid
     /\ SameAuthorization(fnArg.first, fnArg.second))
        => fnRet.firstId = fnRet.secondId

\* ---------------------------------------------------------------- C33
\* C33: in every reachable state, under any interleaving of the handlers,
\* the count of each payer equals the number of successful mints made for
\* that payer.
MintSuccesses(a) == {r \in Requests : payer[r] = a /\ InTrace(r, "mintOk")}

C33_CountEqualsMintSuccesses ==
    \A a \in Addresses : store.mints[a] = Cardinality(MintSuccesses(a))

\* ---------------------------------------------------------------- C34
\* C34: a payment marked processed stays marked after any sequence of
\* ledger operations, also when a read of the store in between fails.
C34_MarkNeverRemoved ==
    [][\A id \in PaymentIds :
          isPaymentProcessed(store, id) => isPaymentProcessed(store', id)]_vars

\* ---------------------------------------------------------------- C35
\* C35 as stated: each ledger operation touches only what it names, whatever
\* happens to its read of the store.
CountsElsewhereKept(address) ==
    \A b \in Addresses \ {toLowerCase(address)} : store'.mints[b] = store.mints[b]

Footprint(readOk) ==
    /\ (fnRet'.fn = "incMintCount" /\ ~fnRet'.throws /\ readOk) =>
          /\ store'.mints[toLowerCase(fnRet'.arg)]
                = store.mints[toLowerCase(fnRet'.arg)] + fnRet'.by
          /\ fnRet'.result = store'.mints[toLowerCase(fnRet'.arg)]
          /\ CountsElsewhereKept(fnRet'.arg)
          /\ store'.processedPayments = store.processedPayments
    /\ (fnRet'.fn = "markPaymentProcessed" /\ ~fnRet'.throws /\ readOk) =>
          /\ store'.processedPayments = store.processedPayments \cup {fnRet'.arg}
          /\ store'.mints = store.mints
    /\ (fnRet'.fn = "getMintCount" /\ readOk) =>
          /\ store' = store
          /\ fnRet'.result = store.mints[toLowerCase(fnRet'.arg)]
    /\ (fnRet'.fn = "isPaymentProcessed" /\ readOk) => store' = store
    /\ fnRet'.throws => store' = store

C36_UnreadableListAdmitsNobody ==
    /\ [](whitelistCache.readFailed =>
             /\ whitelistCache.entries = {}
             /\ fnRet.fn = "isWhitelisted" => ~fnRet.result)
    /\ [][(/\ whitelistCache.readFailed
           /\ fnArg'.now - whitelistCache.lastLoadedMs < WhitelistTtlMs)
             => whitelistCache' = whitelistCache]_vars

\* The file is back and lists the payer, but the failed load is still
\* within its TTL: the payer is refused.
C36_Witness ==
    /\ whitelistCache.readFailed
    /\ fnArg.file = [readable |-> TRUE, lines |-> <<"0xBOB">>]
    /\ fnArg.now > whitelistCache.lastLoadedMs
    /\ fnRet.fn = "isWhitelisted" /\ fnRet.address = "0xBob"
    /\ ~fnRet.result

\* ---------------------------------------------------------------- C37
\* C37: a read of the policy or of the allow-list made less than the TTL
\* after the last load returns the cached snapshot and leaves the cache as
\* it is; the first read made at least one TTL after the last load returns
\* what a load of the source as it is now gives, so that a modification is
\* served no later than one TTL after the load that preceded it.
FreshPolicy(w) == getConfig(w, ConfigFresh).cached

FreshWhitelist(w) == getWhitelist(w, WhitelistFresh).entries

\* The step is a call of the function under study: the world stays as it is.
CallOf(fn) == fnArg.fn = fn /\ fnArg' = fnArg

C37_TtlCaches ==
    [][/\ (/\ CallOf("getConfig") /\ config.cached.loaded
           /\ fnArg.now - config.lastLoadedMs < TtlMs) =>
             /\ config' = config
             /\ fnRet'.whitelistEnabled = config.cached.whitelistEnabled
             /\ fnRet'.perAddressLimit = config.cached.perAddressLimit
       /\ (/\ CallOf("getConfig") /\ config.cached.loaded
           /\ fnArg.now - config.lastLoadedMs >= TtlMs
           /\ fnArg.file # config.source) =>
             /\ fnRet'.whitelistEnabled = FreshPolicy(fnArg).whitelistEnabled
             /\ fnRet'.perAddressLimit = FreshPolicy(fnArg).perAddressLimit
             /\ config'.lastLoadedMs = fnArg.now
       /\ (/\ CallOf("isWhitelisted") /\ whitelistCache.loaded
           /\ fnArg.now - whitelistCache.lastLoadedMs < WhitelistTtlMs) =>
             /\ whitelistCache' = whitelistCache
             /\ fnRet'.result =
                   (toLowerCase(fnArg.address) \in whitelistCache.entries)
       /\ (/\ CallOf("isWhitelisted") /\ whitelistCache.loaded
           /\ fnArg.now - whitelistCache.lastLoadedMs >= WhitelistTtlMs) =>
             /\ whitelistCache'.entries = FreshWhitelist(fnArg)
             /\ fnRet'.result =
                   (toLowerCase(fnArg.address) \in FreshWhitelist(fnArg))
             /\ whitelistCache'.lastLoadedMs = fnArg.now]_vars

\* A reload served the limit an edit of the policy file introduced.
C37_Witness ==
    /\ fnArg.fn = "getConfig" /\ fnArg.envLimit = "undefined"
    /\ fnArg.file.state = "json" /\ fnArg.file.mtimeMs > 1
    /\ fnArg.file.perAddressLimit = "5"
    /\ config.source = fnArg.file
    /\ config.lastLoadedMs >= TtlMs
    /\ fnRet # NoCall /\ fnRet.perAddressLimit = "5"

\* ---------------------------------------------------------------- C38
\* C38 as stated: a payload that passes the presence, network, recipient and
\* amount checks is Invalid with the reason 'expired' if validBefore <= now
\* and with the reason 'not yet valid' if validAfter > now.
PassesEarlierChecks(a) ==
    /\ a.authorization /\ a.signature
    /\ a.network = RequiredNetwork
    /\ a.to # "undefined" /\ toLowerCase(a.to) = toLowerCase(PayTo)
    /\ IsBigInt(a.maxAmountRequired) /\ IsBigInt(a.value)
    /\ BigIntOf(a.value) >= BigIntOf(a.maxAmountRequired)

\* The window bounds as numbers, a missing one counting as 0.
TimingParses(a) == IsNumeric(OrZero(a.validAfter)) /\ IsNumeric(OrZero(a.validBefore))

NotYetValid(a) ==
    IsNumeric(OrZero(a.validAfter)) /\ NumberOf(OrZero(a.validAfter)) > a.now

PastEnd(a) ==
    IsNumeric(OrZero(a.validBefore)) /\ NumberOf(OrZero(a.validBefore)) <= a.now

InvalidWith(reason) == ~fnRet.isValid /\ fnRet.invalidReason = reason

C38_TimingReasonsAsStated ==
    (fnRet # NoCall /\ PassesEarlierChecks(fnArg)) =>
        /\ PastEnd(fnArg) => InvalidWith("Payment authorization has expired")
        /\ NotYetValid(fnArg) =>
              InvalidWith("Payment authorization is not yet valid")

\* C38, amended: for such a payload a bound that is not a number is reported
\* first; else validAfter > now is reported as 'not yet valid'; else
\* validBefore <= now is reported as 'expired'.
C38_TimingReasonsInOrder ==
    (fnRet # NoCall /\ PassesEarlierChecks(fnArg)) =>
        /\ ~TimingParses(fnArg) =>
              InvalidWith("Invalid authorization timing fields")
        /\ (TimingParses(fnArg) /\ NotYetValid(fnArg)) =>
              InvalidWith("Payment authorization is not yet valid")
        /\ (TimingParses(fnArg) /\ ~NotYetValid(fnArg) /\ PastEnd(fnArg)) =>
              InvalidWith("Payment authorization has expired")

\* A window that ended before it starts: both tests fail, the first reports.
C38_Witness ==
    /\ fnRet # NoCall /\ PassesEarlierChecks(fnArg)
    /\ fnArg.validAfter = "15" /\ fnArg.validBefore = "10" /\ fnArg.now = 10
    /\ InvalidWith("Payment authorization is not yet valid")

\* ---------------------------------------------------------------- C39
\* The strategies the requests served so far went through.
StrategiesUsed == {fnRet.calls[i].strategy : i \in 1..Len(fnRet.calls)}

\* The resolution order and the abort, as the claim words them.
C39_ResolvedAsStated ==
    fnRet.phase # "boot" =>
        /\ fnRet.settlementMode =
             (CASE toLowerCase(fnArg.SETTLEMENT_MODE) \in {"local", "direct"}
                     -> "direct"
                [] toLowerCase(fnArg.SETTLEMENT_MODE) = "facilitator"
                     -> "facilitator"
                [] OTHER ->
                     IF fnArg.FACILITATOR_URL # "undefined" THEN "facilitator"
                     ELSE IF fnArg.PRIVATE_KEY # "undefined" THEN "direct"
                     ELSE "facilitator")
        /\ fnRet.phase = "exited" <=>
             (fnRet.settlementMode = "direct"
              /\ fnArg.PRIVATE_KEY = "undefined")

\* C39: the settlement strategy is resolved once at startup (explicit
\* SETTLEMENT_MODE wins, then FACILITATOR_URL, then PRIVATE_KEY, else the
\* facilitator; direct without PRIVATE_KEY aborts), and the verification and
\* the settlement of every request go through that resolved strategy.
C39_EveryRequestUsesResolvedStrategy ==
    /\ C39_ResolvedAsStated
    /\ StrategiesUsed \subseteq {fnRet.settlementMode}

\* The verification and the settlement of the requests of one start all go
\* through one strategy, the one the constructor fixed.
C39_OneStrategyPerStart ==
    StrategiesUsed \subseteq {StrategyOf(fnRet.directSettlementEnabled)}

\* A request is verified and settled directly after SETTLEMENT_MODE=LOCAL.
C39_Witness ==
    /\ fnArg.fn = "startup" /\ fnArg.SETTLEMENT_MODE = "LOCAL"
    /\ fnRet.settlementMode = "direct"
    /\ Len(fnRet.calls) = 2
    /\ fnRet.calls[1] = [op |-> "verifyPayment", strategy |-> "direct"]
    /\ fnRet.calls[2] = [op |-> "settlePayment", strategy |-> "direct"]

TypeOK ==
    /\ pc \in [Requests -> {"idle", "awaitVerify", "awaitMint", "awaitSettle",
                            "settleHung", "done"}]
    /\ mintTo \in [Requests -> Addresses \cup {""}]
    /\ \A r \in Requests : result[r].mintTxHash \in 0..MaxRequests
    /\ store.processedPayments \subseteq PaymentIds
    /\ \A a \in Addresses : store.mints[a] \in Nat
====
